---------------------------- MODULE Spec2Model ----------------------------
(***************************************************************************)
(* A model of pitwall's race engine (src/pitwall/race.py, models.py,       *)
(* config.py): RaceSimulation with its flag state machine, the red-flag    *)
(* memento, the lap stepper and the event log.                             *)
(*                                                                         *)
(* Units.  The program computes in floats; the model is fixed-point:       *)
(*   time         milliseconds            (1.0 s   = 1000)                 *)
(*   tire wear    1/10000 of a percent    (100 %   = 1000000)              *)
(*   probability  millionths              (1.0     = 1000000)              *)
(* rng.random() is a draw from RandomSamples, rng.uniform(a, b) a draw     *)
(* from a few points of [a, b], rng.randint(a, b) a draw from a..b.        *)
(***************************************************************************)
EXTENDS Integers, Sequences, FiniteSets

(***************************************************************************)
(* Bounds of the model and the inputs of one session.                      *)
(***************************************************************************)
NumDrivers == 2
TrackLaps == 3
MaxIncidents == 1

\* Track record (models.py Track): baseline lap pace and average pit stop.
base_pace_s == 90000
avg_pit_stop_s == 22000

\* Driver record inputs (models.py Driver.skill, Driver.car_score).
Skill(n) == 90
CarScore(n) == 80

NoneTime == -1

\* rng.random(): a value of [0, 1); the samples are its two ends.
RandomSamples == {0, 999999}
\* rng.uniform(-0.3, 0.3)
ScatterSamples == {-300, 300}
\* rng.uniform(3.0, 10.0)
CollisionPenaltySamples == {3000}
\* rng.uniform(0.4, 2.2)
IncidentLossSamples == {2200}
\* rng.uniform(0.0, 2.0)
PitExtraSamples == {1000}

(***************************************************************************)
(* config.py: SimulationConfig, with its default values.                   *)
(***************************************************************************)
DefaultConfig ==
  [ race_sim_max_seconds             |-> 3 * 60 * 60 * 1000,
    collision_chance_per_lap         |-> 2000,
    incident_chance_per_lap          |-> 8000,
    red_flag_chance_per_lap          |-> 2000,
    dnf_chance_scale                 |-> 25,
    collision_dnf_probability        |-> 350000,
    red_flag_duration_min_minutes    |-> 15,
    red_flag_duration_max_minutes    |-> 30,
    red_flag_cooldown_laps           |-> 8,
    tire_compound_delta_pct_per_step |-> 3,
    yellow_flag_min_laps             |-> 2,
    yellow_flag_max_laps             |-> 4,
    yellow_pace_multiplier           |-> 130,
    yellow_min_gap_s                 |-> 200,
    restart_gap_s                    |-> 300 ]

VARIABLES
  drivers,                 \* self.drivers: name -> Driver record
  events,                  \* self.events
  start_monotonic,         \* self.start_monotonic (NoneTime: None)
  finished,                \* self.finished
  flag_state,              \* self.flag_state
  _red_flag_active,        \* self._red_flag_active
  _yellow_laps_remaining,  \* self._yellow_laps_remaining
  _driver_effects,         \* self._driver_effects: name -> DriverRaceEffects
  _restart_memento,        \* self._restart_memento
  _prepared,               \* self._prepared
  _lap_index,              \* self._lap_index
  _last_positions,         \* self._last_positions
  _last_red_flag_lap,      \* self._last_red_flag_lap
  _planned_pit_lap,        \* self._planned_pit_lap: a dict, name -> lap
  raining,                 \* self.raining
  pit_strategy,            \* self.pit_strategy
  config,                  \* self.config
  track_laps,              \* self.track_laps
  rng,                     \* self.rng: the values its draws are taken from
  last_call,               \* the last call that was a step_lap (how it ended)
                           \* or that changed the session (its name); where
                           \* the clock is followed, its last tick as well
  clock,                   \* time.monotonic()
  _paused_total_s,         \* self._paused_total_s
  _pause_started_monotonic,\* self._pause_started_monotonic (NoneTime: None)
  paused_time,             \* the time that passed while the clock was paused
  paused_time_since_start, \* the same, counted from start() on
  clock_paused,            \* the last of pause_clock() and resume_clock()
                           \* called is pause_clock()
  pc,                      \* run_race_ui: where the loop is
  log_index,               \* run_race_ui: log_index
  new_events,              \* run_race_ui: new_events
  last_rf_seen,            \* run_race_ui: last_rf_seen
  received,                \* every event a consumer of the log was handed
  arguments,               \* the arguments of the call of a function
  result                   \* what that call returned

vars == << drivers, events, start_monotonic, finished, flag_state,
           _red_flag_active, _yellow_laps_remaining, _driver_effects,
           _restart_memento, _prepared, _lap_index, _last_positions,
           _last_red_flag_lap, _planned_pit_lap, raining, pit_strategy,
           config, track_laps, rng, last_call, clock, _paused_total_s,
           _pause_started_monotonic, paused_time, paused_time_since_start,
           clock_paused, pc, log_index, new_events, last_rf_seen, received, arguments,
           result >>

\* The session object's own fields
sessionVars == << drivers, events, start_monotonic, finished, flag_state,
                  _red_flag_active, _yellow_laps_remaining, _driver_effects,
                  _restart_memento, _prepared, _lap_index, _last_positions,
                  _last_red_flag_lap, _planned_pit_lap, raining, pit_strategy,
                  config, track_laps, rng, _paused_total_s,
                  _pause_started_monotonic >>

\* time.monotonic() and what the caller of pause_clock() and resume_clock()
\* knows of the pauses
clockVars == << clock, paused_time, paused_time_since_start, clock_paused >>

\* The variables of run_race_ui, and of a consumer of the event log
uiVars == << pc, log_index, new_events, last_rf_seen, received >>

\* The call of a function on its own
callVars == << arguments, result >>

\* The session object as one record, for the operators that compute on it.
Self ==
  [ drivers |-> drivers, events |-> events, start_monotonic |-> start_monotonic,
    finished |-> finished, flag_state |-> flag_state,
    _red_flag_active |-> _red_flag_active,
    _yellow_laps_remaining |-> _yellow_laps_remaining,
    _driver_effects |-> _driver_effects, _restart_memento |-> _restart_memento,
    _prepared |-> _prepared, _lap_index |-> _lap_index,
    _last_positions |-> _last_positions,
    _last_red_flag_lap |-> _last_red_flag_lap,
    _planned_pit_lap |-> _planned_pit_lap, raining |-> raining,
    pit_strategy |-> pit_strategy, config |-> config, track_laps |-> track_laps,
    rng |-> rng, _paused_total_s |-> _paused_total_s,
    _pause_started_monotonic |-> _pause_started_monotonic ]

\* The session object after a call: every field takes its value in s.
Becomes(s) ==
  /\ drivers' = s.drivers
  /\ events' = s.events
  /\ start_monotonic' = s.start_monotonic
  /\ finished' = s.finished
  /\ flag_state' = s.flag_state
  /\ _red_flag_active' = s._red_flag_active
  /\ _yellow_laps_remaining' = s._yellow_laps_remaining
  /\ _driver_effects' = s._driver_effects
  /\ _restart_memento' = s._restart_memento
  /\ _prepared' = s._prepared
  /\ _lap_index' = s._lap_index
  /\ _last_positions' = s._last_positions
  /\ _last_red_flag_lap' = s._last_red_flag_lap
  /\ _planned_pit_lap' = s._planned_pit_lap
  /\ raining' = s.raining
  /\ pit_strategy' = s.pit_strategy
  /\ config' = s.config
  /\ track_laps' = s.track_laps
  /\ rng' = s.rng
  /\ _paused_total_s' = s._paused_total_s
  /\ _pause_started_monotonic' = s._pause_started_monotonic

(***************************************************************************)
(* models.py                                                               *)
(***************************************************************************)
SLICK_COMPOUNDS == << "SOFT", "MEDIUM", "HARD" >>

Max(a, b) == IF a >= b THEN a ELSE b
Min(a, b) == IF a <= b THEN a ELSE b

NoTires == [ tire_type |-> "NONE", wear_percent |-> 0 ]

\* TireState(tire_type): wear_percent defaults to 100.0
TireState(tire_type) == [ tire_type |-> tire_type, wear_percent |-> 1000000 ]

\* Driver(name, team_name, skill, car_score) with the dataclass defaults.
NewDriver(n) ==
  [ name |-> n, skill |-> Skill(n), car_score |-> CarScore(n),
    status |-> "RUNNING", lap |-> 0, total_time_s |-> 0, last_lap_s |-> 0,
    tires |-> NoTires, pit_stops |-> 0, used_compounds |-> {} ]

\* apply_wear with the sign of the amount wrong: the tire regenerates.
apply_wear_Adds(tires, amount) ==
  [ tires EXCEPT !.wear_percent = Max(0, tires.wear_percent + amount) ]

\* TireState.apply_wear
apply_wear(tires, amount) ==
  [ tires EXCEPT !.wear_percent = Max(0, tires.wear_percent - amount) ]

\* TireState.penalty_s
penalty_s(tires) ==
  LET w == tires.wear_percent
  IN  IF w > 300000 THEN 0
      ELSE IF 200000 <= w /\ w <= 300000 THEN 500
      ELSE IF 100000 <= w /\ w < 200000 THEN 1500
      ELSE 3000

\* Driver.choose_start_tires; pick is the rng.random() draw.
choose_start_tires(d, is_raining, pick) ==
  IF is_raining
  THEN [ d EXCEPT !.tires = TireState("WET"), !.used_compounds = {"WET"} ]
  ELSE LET chosen == IF pick <= 550000 THEN "SOFT"
                     ELSE IF pick <= 850000 THEN "MEDIUM"
                     ELSE IF pick <= 1000000 THEN "HARD"
                     ELSE "SOFT"
       IN  [ d EXCEPT !.tires = TireState(chosen), !.used_compounds = {chosen} ]

\* Driver.ensure_tires: the driver with tires mounted.
ensure_tires(d) ==
  IF d.tires.tire_type = "NONE"
  THEN [ d EXCEPT !.tires = TireState("SOFT"), !.used_compounds = {"SOFT"} ]
  ELSE d

\* Driver.needs_pit (on a driver whose tires are ensured)
needs_pit(d) == ensure_tires(d).tires.wear_percent < 200000

\* Driver.pick_next_compound without the rule of two slick compounds
pick_next_compound_HeuristicOnly(d, is_raining) ==
  IF is_raining THEN "WET"
  ELSE IF ensure_tires(d).tires.wear_percent < 100000 THEN "HARD"
  ELSE "MEDIUM"

\* Driver.pick_next_compound
pick_next_compound(d, is_raining) ==
  IF is_raining THEN "WET"
  ELSE LET used_slicks == { c \in d.used_compounds :
                              \E k \in 1..Len(SLICK_COMPOUNDS) : SLICK_COMPOUNDS[k] = c }
           unused == { k \in 1..Len(SLICK_COMPOUNDS) : SLICK_COMPOUNDS[k] \notin used_slicks }
       IN  IF Cardinality(used_slicks) < 2 /\ unused # {}
           THEN SLICK_COMPOUNDS[CHOOSE k \in unused : \A j \in unused : k <= j]
           ELSE IF ensure_tires(d).tires.wear_percent < 100000 THEN "HARD"
           ELSE "MEDIUM"


(***************************************************************************)
(* race.py: flags, observers, standings                                    *)
(***************************************************************************)
\* The names of the competitors: self.drivers is the list of them, and a
\* competitor's name is its place in the list.
Names(s) == DOMAIN s.drivers

\* RaceEvent(kind, message): the message is kept as the competitor it names
\* (0: none) and the number it formats (0: none).
RaceEvent(kind, who, n) == [ kind |-> kind, who |-> who, n |-> n ]

\* RaceSimulation._log
_log(s, kind, who, n) == [ s EXCEPT !.events = Append(@, RaceEvent(kind, who, n)) ]

\* RaceSimulation.pop_new_events with events[since:] taken as Python takes it
\* for a negative since, from the end of the list
pop_new_events_NegativeFromEnd(s, since) ==
  [ cursor |-> Len(s.events),
    new    |-> IF since < 0
               THEN SubSeq(s.events, Max(1, Len(s.events) + since + 1), Len(s.events))
               ELSE SubSeq(s.events, since + 1, Len(s.events)) ]

\* RaceSimulation.pop_new_events: the pair it returns, len(self.events) and
\* self.events[since:]
pop_new_events(s, since) ==
  LET from == IF since < 0 THEN 0 ELSE since
  IN  [ cursor |-> Len(s.events),
        new    |-> SubSeq(s.events, from + 1, Len(s.events)) ]

\* DriverRaceEffects()
DriverRaceEffects == [ pace_multiplier |-> 100, overtake_allowed |-> TRUE ]

\* DriverFlagObserver.on_flag_change: the effects it leaves.
on_flag_change(flag, cfg) ==
  IF flag = "YELLOW"
  THEN [ pace_multiplier |-> cfg.yellow_pace_multiplier, overtake_allowed |-> FALSE ]
  ELSE [ pace_multiplier |-> 100, overtake_allowed |-> TRUE ]

\* _set_flag without the notification of the observers.
_set_flag_Silent(s, flag) ==
  IF s.flag_state = flag THEN s
  ELSE [ s EXCEPT !.flag_state = flag ]

\* RaceSimulation._set_flag
_set_flag(s, flag) ==
  IF s.flag_state = flag THEN s
  ELSE [ s EXCEPT !.flag_state = flag,
                  !._driver_effects =
                     [ n \in DOMAIN s._driver_effects |-> on_flag_change(flag, s.config) ] ]

\* RaceSimulation.is_yellow_active
is_yellow_active(s) == s._yellow_laps_remaining > 0

\* sorted(names, key = total_time_s): Python's sort is stable, so equal keys
\* stay in list order, which is the order of the names.
RECURSIVE SortByTotal(_, _)
SortByTotal(ds, S) ==
  IF S = {} THEN << >>
  ELSE LET m == CHOOSE n \in S : \A k \in S :
                   \/ ds[n].total_time_s < ds[k].total_time_s
                   \/ ds[n].total_time_s = ds[k].total_time_s /\ n <= k
       IN  << m >> \o SortByTotal(ds, S \ {m})

\* RaceSimulation.sorted_running, as the list of names
sorted_running(s) ==
  SortByTotal(s.drivers, { n \in Names(s) : s.drivers[n].status = "RUNNING" })

\* sorted(names, key = (lap, total_time_s), reverse = True): the largest key
\* first; Python keeps equal keys in list order under reverse = True too.
RECURSIVE SortDnfs(_, _)
SortDnfs(ds, S) ==
  IF S = {} THEN << >>
  ELSE LET m == CHOOSE n \in S : \A k \in S :
                   \/ ds[n].lap > ds[k].lap
                   \/ ds[n].lap = ds[k].lap /\ ds[n].total_time_s > ds[k].total_time_s
                   \/ ds[n].lap = ds[k].lap /\ ds[n].total_time_s = ds[k].total_time_s
                      /\ n <= k
       IN  << m >> \o SortDnfs(ds, S \ {m})

\* RaceSimulation.sorted_finished_and_running with the retired competitors
\* left in list order
sorted_finished_and_running_DnfsUnsorted(s) ==
  SortByTotal(s.drivers, { n \in Names(s) : s.drivers[n].status \in {"RUNNING", "FINISHED"} })
    \o SelectSeq([ n \in Names(s) |-> n ], LAMBDA n : s.drivers[n].status = "DNF")

\* RaceSimulation.sorted_finished_and_running, as the list of names
sorted_finished_and_running(s) ==
  LET active == { n \in Names(s) : s.drivers[n].status \in {"RUNNING", "FINISHED"} }
      dnfs   == { n \in Names(s) : s.drivers[n].status = "DNF" }
  IN  SortByTotal(s.drivers, active) \o SortDnfs(s.drivers, dnfs)

\* The index of name in a list of names (0: absent).
IndexOf(seq, name) ==
  IF \E i \in 1..Len(seq) : seq[i] = name
  THEN CHOOSE i \in 1..Len(seq) : seq[i] = name
  ELSE 0

MinOf(S) == CHOOSE x \in S : \A y \in S : x <= y

\* RaceSimulation.race_timer_s
race_timer_s(s) ==
  LET finished_times == { s.drivers[n].total_time_s : n \in { k \in Names(s) : s.drivers[k].status = "FINISHED" } }
      running_times == { s.drivers[n].total_time_s : n \in { k \in Names(s) : s.drivers[k].status = "RUNNING" } }
  IN  IF finished_times # {} THEN MinOf(finished_times)
      ELSE IF running_times # {} THEN MinOf(running_times)
      ELSE 0

\* RaceSimulation.pit_wont_lose_position
pit_wont_lose_position(s, name, pit_time_s) ==
  LET running == sorted_running(s)
      idx == IndexOf(running, name)
  IN  IF idx = 0 THEN FALSE
      ELSE IF idx >= Len(running) THEN TRUE
      ELSE s.drivers[running[idx + 1]].total_time_s - s.drivers[name].total_time_s
             > pit_time_s + 500

\* DefaultPitStrategy.should_pit
DefaultShouldPit(s, d, force_compound_change) == needs_pit(d) \/ force_compound_change

\* NeutralizationPitStrategy.should_pit
NeutralizationShouldPit(s, d, force_compound_change) ==
  IF DefaultShouldPit(s, d, force_compound_change) THEN TRUE
  ELSE IF ~ is_yellow_active(s) THEN FALSE
  ELSE IF s.raining THEN FALSE
  ELSE IF ensure_tires(d).tires.tire_type = "WET" THEN FALSE
  ELSE IF ensure_tires(d).tires.wear_percent > 350000 THEN FALSE
  ELSE pit_wont_lose_position(s, d.name, avg_pit_stop_s + 1000)

\* The pit decision on tire wear alone.
should_pit_WearOnly(s, d, force_compound_change) == needs_pit(d)

\* self.pit_strategy.should_pit
should_pit(s, d, force_compound_change) ==
  IF s.pit_strategy = "Default"
  THEN DefaultShouldPit(s, d, force_compound_change)
  ELSE NeutralizationShouldPit(s, d, force_compound_change)

(***************************************************************************)
(* race.py: prepare, start, clear_red_flag                                 *)
(***************************************************************************)
\* prepare's bounds of the planned pit lap: int(track_laps * 0.35) and 0.65
PlanMinLap == Max(1, (track_laps * 35) \div 100)
PlanMaxLap == Max(PlanMinLap, (track_laps * 65) \div 100)

\* prepare planning the pit laps in the wet instead of in the dry.
prepare_PlansInTheWet(s, picks, plans) ==
  IF s._prepared THEN s
  ELSE LET ds == [ n \in Names(s) |-> choose_start_tires(s.drivers[n], s.raining, picks[n]) ]
           s1 == [ s EXCEPT !.drivers = ds ]
           s2 == IF s.raining
                 THEN [ s1 EXCEPT !._planned_pit_lap =
                          [ n \in Names(s) |-> Min(plans[n], Max(1, s.track_laps - 2)) ] ]
                 ELSE s1
       IN  [ s2 EXCEPT !._last_positions = sorted_running(s2), !._prepared = TRUE ]

\* prepare without its return when the session is already prepared.
prepare_Unguarded(s, picks, plans) ==
  LET ds == [ n \in Names(s) |-> choose_start_tires(s.drivers[n], s.raining, picks[n]) ]
      s1 == [ s EXCEPT !.drivers = ds ]
      s2 == IF ~ s.raining
            THEN [ s1 EXCEPT !._planned_pit_lap =
                     [ n \in Names(s) |-> Min(plans[n], Max(1, s.track_laps - 2)) ] ]
            ELSE s1
  IN  [ s2 EXCEPT !._last_positions = sorted_running(s2), !._prepared = TRUE ]

\* RaceSimulation.prepare; picks[n] is the rng.random() draw of n's start
\* tires and plans[n] the rng.randint(min_lap, max_lap) draw.
prepare(s, picks, plans) ==
  IF s._prepared THEN s
  ELSE LET ds == [ n \in Names(s) |-> choose_start_tires(s.drivers[n], s.raining, picks[n]) ]
           s1 == [ s EXCEPT !.drivers = ds ]
           s2 == IF ~ s.raining
                 THEN [ s1 EXCEPT !._planned_pit_lap =
                          [ n \in Names(s) |-> Min(plans[n], Max(1, s.track_laps - 2)) ] ]
                 ELSE s1
       IN  [ s2 EXCEPT !._last_positions = sorted_running(s2), !._prepared = TRUE ]

\* RaceSimulation.start; now is time.monotonic().
start(s, now, picks, plans) ==
  prepare(IF s.start_monotonic = NoneTime THEN [ s EXCEPT !.start_monotonic = now ] ELSE s,
          picks, plans)

\* RaceSimulation.real_elapsed_s; now is time.monotonic().
real_elapsed_s(s, now) ==
  IF s.start_monotonic = NoneTime THEN 0 ELSE now - s.start_monotonic

\* RaceSimulation.race_clock_elapsed_s
race_clock_elapsed_s(s, now) ==
  IF s.start_monotonic = NoneTime THEN 0
  ELSE LET paused == IF s._pause_started_monotonic # NoneTime
                     THEN s._paused_total_s + (now - s._pause_started_monotonic)
                     ELSE s._paused_total_s
       IN  Max(0, now - s.start_monotonic - paused)

\* RaceSimulation.pause_clock with the pause restarted by every call
pause_clock_Restarts(s, now) == [ s EXCEPT !._pause_started_monotonic = now ]

\* RaceSimulation.pause_clock
pause_clock(s, now) ==
  IF s._pause_started_monotonic = NoneTime
  THEN [ s EXCEPT !._pause_started_monotonic = now ]
  ELSE s

\* RaceSimulation.resume_clock
resume_clock(s, now) ==
  IF s._pause_started_monotonic = NoneTime THEN s
  ELSE [ s EXCEPT !._paused_total_s = @ + (now - s._pause_started_monotonic),
                  !._pause_started_monotonic = NoneTime ]

\* clear_red_flag's restart times: leader_time + i * gap_s along the order.
RestartTimes(ds, ordered_running, gap_s) ==
  [ n \in DOMAIN ds |->
      IF IndexOf(ordered_running, n) > 0
      THEN [ ds[n] EXCEPT !.total_time_s =
               ds[ordered_running[1]].total_time_s + (IndexOf(ordered_running, n) - 1) * gap_s ]
      ELSE ds[n] ]

NoMemento == [ present |-> FALSE, running_order |-> << >> ]
RestartMemento(running_order) == [ present |-> TRUE, running_order |-> running_order ]

\* clear_red_flag walking self.drivers instead of the memento's order.
clear_red_flag_ListOrder(s) ==
  LET s1 == [ s EXCEPT !._red_flag_active = FALSE ]
      s2 == IF s1.flag_state = "RED" THEN _set_flag(s1, "GREEN") ELSE s1
  IN  IF s2._restart_memento.present
      THEN LET ordered_running ==
                 SelectSeq([ n \in Names(s2) |-> n ], LAMBDA n : s2.drivers[n].status = "RUNNING")
               s3 == IF ordered_running # << >>
                     THEN [ s2 EXCEPT !.drivers = RestartTimes(s2.drivers, ordered_running, s2.config.restart_gap_s),
                                      !._last_positions = ordered_running ]
                     ELSE s2
           IN  [ s3 EXCEPT !._restart_memento = NoMemento ]
      ELSE s2

\* RaceSimulation.clear_red_flag putting the flag back to Yellow when yellow
\* laps remain
clear_red_flag_ResumesYellow(s) ==
  LET s1 == [ s EXCEPT !._red_flag_active = FALSE ]
      s2 == IF s1.flag_state = "RED"
            THEN _set_flag(s1, IF is_yellow_active(s1) THEN "YELLOW" ELSE "GREEN")
            ELSE s1
  IN  [ s2 EXCEPT !._restart_memento = NoMemento ]

\* clear_red_flag that restarts the field and keeps the memento.
clear_red_flag_KeepsMemento(s) ==
  LET s1 == [ s EXCEPT !._red_flag_active = FALSE ]
      s2 == IF s1.flag_state = "RED" THEN _set_flag(s1, "GREEN") ELSE s1
  IN  IF s2._restart_memento.present
      THEN LET order == s2._restart_memento.running_order
               ordered_running == SelectSeq(order, LAMBDA n : n \in Names(s2) /\ s2.drivers[n].status = "RUNNING")
           IN  IF ordered_running # << >>
               THEN [ s2 EXCEPT !.drivers = RestartTimes(s2.drivers, ordered_running, s2.config.restart_gap_s),
                                !._last_positions = ordered_running ]
               ELSE s2
      ELSE s2

\* RaceSimulation.clear_red_flag
\* RaceSimulation.clear_red_flag
clear_red_flag(s) ==
  LET s1 == [ s EXCEPT !._red_flag_active = FALSE ]
      s2 == IF s1.flag_state = "RED" THEN _set_flag(s1, "GREEN") ELSE s1
  IN  IF s2._restart_memento.present
      THEN LET order == s2._restart_memento.running_order
               ordered_running == SelectSeq(order, LAMBDA n : n \in Names(s2) /\ s2.drivers[n].status = "RUNNING")
               s3 == IF ordered_running # << >>
                     THEN [ s2 EXCEPT !.drivers = RestartTimes(s2.drivers, ordered_running, s2.config.restart_gap_s),
                                      !._last_positions = ordered_running ]
                     ELSE s2
           IN  [ s3 EXCEPT !._restart_memento = NoMemento ]
      ELSE s2

(***************************************************************************)
(* race.py: step_lap                                                       *)
(***************************************************************************)
\* RaceSimulation._wear_per_lap
_wear_per_lap(skill, tire_type) ==
  LET base == Max(6000, 20000 - skill * 100)
  IN  IF tire_type = "WET" THEN (base * 85) \div 100 ELSE base

\* RaceSimulation._dnf_chance
_dnf_chance(s, skill) ==
  ((10000 + (100 - skill) * 100) * s.config.dnf_chance_scale) \div 100

\* RaceSimulation._lap_time_s; scatter is the rng.uniform(-0.3, 0.3) draw.
_lap_time_s(s, d, tires, scatter) ==
  LET compound_step == IF tires.tire_type = "SOFT" THEN -1
                       ELSE IF tires.tire_type = "HARD" THEN 1
                       ELSE 0
      tire_penalty == penalty_s(tires)
                        + (base_pace_s * s.config.tire_compound_delta_pct_per_step * compound_step) \div 1000
      wet_penalty == IF s.raining /\ tires.tire_type # "WET" THEN 8000
                     ELSE IF ~ s.raining /\ tires.tire_type = "WET" THEN 5000
                     ELSE 0
  IN  base_pace_s - d.skill * 7 - d.car_score * 3 + scatter + tire_penalty + wet_penalty

\* The red-flag block adding the stoppage to every competitor, retired or not.
TriggerRedFlag_AllDrivers(s, rf_minutes) ==
  LET s1 == [ s EXCEPT !._last_red_flag_lap = s._lap_index,
                       !._red_flag_active = TRUE,
                       !._restart_memento = RestartMemento(sorted_running(s)) ]
      s2 == _set_flag(s1, "RED")
      s3 == [ s2 EXCEPT !.drivers =
                [ n \in Names(s2) |->
                    [ s2.drivers[n] EXCEPT !.total_time_s = @ + rf_minutes * 60 * 1000 ] ] ]
  IN  _log(s3, "RF", 0, rf_minutes)

\* step_lap's red-flag block: the stoppage of rf_minutes is triggered.
TriggerRedFlag(s, rf_minutes) ==
  LET s1 == [ s EXCEPT !._last_red_flag_lap = s._lap_index,
                       !._red_flag_active = TRUE,
                       !._restart_memento = RestartMemento(sorted_running(s)) ]
      s2 == _set_flag(s1, "RED")
      rf_seconds == rf_minutes * 60 * 1000
      s3 == [ s2 EXCEPT !.drivers =
                [ n \in Names(s2) |->
                    IF s2.drivers[n].status \in {"RUNNING", "FINISHED"}
                    THEN [ s2.drivers[n] EXCEPT !.total_time_s = @ + rf_seconds ]
                    ELSE s2.drivers[n] ] ]
  IN  _log(s3, "RF", 0, rf_minutes)

\* The start of the lap without the advance of the lap counter.
StartOfLap_KeepsLapIndex(s) ==
  IF is_yellow_active(s)
  THEN [ _set_flag(s, "YELLOW") EXCEPT
           !._yellow_laps_remaining = Max(0, s._yellow_laps_remaining - 1) ]
  ELSE _set_flag(s, "GREEN")

\* step_lap's start of the lap: the flag and the yellow countdown.
StartOfLap(s) ==
  LET s1 == IF is_yellow_active(s)
            THEN [ _set_flag(s, "YELLOW") EXCEPT
                     !._yellow_laps_remaining = Max(0, s._yellow_laps_remaining - 1) ]
            ELSE _set_flag(s, "GREEN")
  IN  [ s1 EXCEPT !._lap_index = @ + 1 ]

\* The lap of one competitor that retires: status DNF and the DNF event.
Retire(c, d) ==
  [ s |-> _log([ c.s EXCEPT !.drivers[d.name] = [ d EXCEPT !.status = "DNF" ] ], "DNF", d.name, 0),
    yellow_triggered |-> TRUE,
    yellow_reason |-> IF c.yellow_reason = 0 THEN d.name ELSE c.yellow_reason ]

\* The pit stop with total_time_s assigned the pit time instead of increased
\* by it.
PitStop_AssignsTime(s, d, pit_extra) ==
  LET next_compound == pick_next_compound(d, s.raining)
      pit_time == avg_pit_stop_s + pit_extra
      d1 == [ d EXCEPT !.total_time_s = pit_time,
                       !.pit_stops = @ + 1,
                       !.tires = TireState(next_compound),
                       !.used_compounds = @ \cup {next_compound} ]
  IN  _log([ s EXCEPT !.drivers[d.name] = d1 ], "PIT", d.name, pit_time)

\* step_lap's pit stop of driver d in session s; pit_extra is the
\* rng.uniform(0.0, 2.0) draw.
PitStop(s, d, pit_extra) ==
  LET next_compound == pick_next_compound(d, s.raining)
      pit_time == avg_pit_stop_s + pit_extra
      d1 == [ d EXCEPT !.total_time_s = @ + pit_time,
                       !.pit_stops = @ + 1,
                       !.tires = TireState(next_compound),
                       !.used_compounds = @ \cup {next_compound} ]
  IN  _log([ s EXCEPT !.drivers[d.name] = d1 ], "PIT", d.name, pit_time)

\* step_lap's lap of driver d once pitted or not: wear, lap time, lap count,
\* finish.
DriveLap(s, d, yellow_active, scatter) ==
  LET d0 == ensure_tires(d)
      tires == apply_wear(d0.tires, _wear_per_lap(d0.skill, d0.tires.tire_type))
      base_time == _lap_time_s(s, d0, tires, scatter)
      lap_time == IF yellow_active
                  THEN (base_time * s._driver_effects[d.name].pace_multiplier) \div 100
                  ELSE base_time
      d1 == [ d0 EXCEPT !.tires = tires,
                        !.last_lap_s = lap_time,
                        !.total_time_s = @ + lap_time,
                        !.lap = @ + 1 ]
  IN  IF d1.lap >= s.track_laps
      THEN _log([ s EXCEPT !.drivers[d.name] = [ d1 EXCEPT !.status = "FINISHED" ] ], "FIN", d.name, 0)
      ELSE [ s EXCEPT !.drivers[d.name] = d1 ]

\* step_lap's loop body for a Running competitor named n that has laps left,
\* under the draws dr: c is the loop's context (the session,
\* yellow_triggered, yellow_reason).
RunningDriverStep(c, n, yellow_active, dr) ==
  LET s == c.s
      d == s.drivers[n]
  IN
    LET d0 == ensure_tires(d)
        collided == dr.collision < s.config.collision_chance_per_lap
    IN
    IF collided /\ dr.collision_dnf < s.config.collision_dnf_probability
    THEN Retire(c, d0)
    ELSE
      LET sa == IF collided
                THEN _log([ s EXCEPT !.drivers[n] = [ d0 EXCEPT !.total_time_s = @ + dr.penalty ] ],
                          "COL", n, dr.penalty)
                ELSE [ s EXCEPT !.drivers[n] = d0 ]
          sb == IF dr.incident < s.config.incident_chance_per_lap
                THEN _log([ sa EXCEPT !.drivers[n].total_time_s = @ + dr.loss ], "INC", n, dr.loss)
                ELSE sa
      IN
      IF dr.dnf < _dnf_chance(s, d0.skill)
      THEN Retire([ c EXCEPT !.s = sb ], sb.drivers[n])
      ELSE
        LET db == sb.drivers[n]
            used_slicks == db.used_compounds \cap {"SOFT", "MEDIUM", "HARD"}
            force_compound_change ==
              /\ ~ sb.raining
              /\ n \in DOMAIN sb._planned_pit_lap
              /\ db.pit_stops = 0
              /\ db.lap >= sb._planned_pit_lap[n]
              /\ Cardinality(used_slicks) < 2
            sc == IF should_pit(sb, db, force_compound_change)
                  THEN PitStop(sb, db, dr.pit_extra)
                  ELSE sb
        IN  [ c EXCEPT !.s = DriveLap(sc, sc.drivers[n], yellow_active, dr.scatter) ]

\* The loop body without its skip of the competitors that are not Running.
DriverStep_NoSkip(c, n, yellow_active, dr) ==
  IF c.s.drivers[n].lap >= c.s.track_laps
  THEN [ c EXCEPT !.s.drivers[n].status = "FINISHED" ]
  ELSE RunningDriverStep(c, n, yellow_active, dr)

\* step_lap's loop body for the competitor named n.
DriverStep(c, n, yellow_active, dr) ==
  IF c.s.drivers[n].status # "RUNNING" THEN c
  ELSE IF c.s.drivers[n].lap >= c.s.track_laps
  THEN [ c EXCEPT !.s.drivers[n].status = "FINISHED" ]
  ELSE RunningDriverStep(c, n, yellow_active, dr)

\* _emit_overtakes crediting one position whatever the gain.
RECURSIVE _emit_overtakes_CreditsOne(_, _, _, _)
_emit_overtakes_CreditsOne(s, before, after, i) ==
  IF i > Len(after) THEN s
  ELSE LET prev == IndexOf(before, after[i])
       IN  _emit_overtakes_CreditsOne(
             IF prev # 0 /\ i < prev /\ prev - i >= 1
             THEN _log(s, "OVT", after[i], 1)
             ELSE s,
             before, after, i + 1)

\* RaceSimulation._emit_overtakes: the OVT events, in the order of after.
RECURSIVE _emit_overtakes(_, _, _, _)
_emit_overtakes(s, before, after, i) ==
  IF i > Len(after) THEN s
  ELSE LET prev == IndexOf(before, after[i])
       IN  _emit_overtakes(
             IF prev # 0 /\ i < prev /\ prev - i >= 1
             THEN _log(s, "OVT", after[i], prev - i)
             ELSE s,
             before, after, i + 1)

\* The times under yellow left as the lap made them.
YellowTimes_Unclamped(ds, ordered, i, prev_total, min_gap) == ds

\* step_lap under yellow: the times pushed back along the order before the lap.
RECURSIVE YellowTimes(_, _, _, _, _)
YellowTimes(ds, ordered, i, prev_total, min_gap) ==
  IF i > Len(ordered) THEN ds
  ELSE LET t == Max(ds[ordered[i]].total_time_s, prev_total + min_gap)
       IN  YellowTimes([ ds EXCEPT ![ordered[i]].total_time_s = t ], ordered, i + 1, t, min_gap)

\* step_lap after the loop: the order kept under yellow, or the overtakes.
Positions(s, yellow_active, order_before) ==
  IF yellow_active /\ order_before # << >>
  THEN LET ordered == SelectSeq(order_before, LAMBDA n : n \in Names(s) /\ s.drivers[n].status = "RUNNING")
       IN  [ s EXCEPT !.drivers = IF ordered = << >> THEN @
                                  ELSE YellowTimes(@, ordered, 2, @[ordered[1]].total_time_s,
                                                   s.config.yellow_min_gap_s),
                      !._last_positions = ordered ]
  ELSE LET now_positions == sorted_running(s)
           s1 == IF s._last_positions # << >>
                 THEN _emit_overtakes(s, s._last_positions, now_positions, 1)
                 ELSE s
       IN  [ s1 EXCEPT !._last_positions = now_positions ]

\* The end of the race logging the session end with competitors still Running.
EndOfRace_LogsWhileRunning(s) ==
  IF ~ \E n \in Names(s) : s.drivers[n].status = "RUNNING"
  THEN [ _log(s, "END", 0, 0) EXCEPT !.finished = TRUE ]
  ELSE _log(s, "END", 0, 0)

\* step_lap's end of the race: nobody is running any more.
EndOfRace(s) ==
  IF ~ \E n \in Names(s) : s.drivers[n].status = "RUNNING"
  THEN [ _log(s, "END", 0, 0) EXCEPT !.finished = TRUE ]
  ELSE s

\* The range randint draws the yellow duration from.
YellowDurations(s) ==
  s.config.yellow_flag_min_laps ..
    Max(s.config.yellow_flag_min_laps, s.config.yellow_flag_max_laps)

\* The arming of the yellow flag without the flag change.
ArmYellow_KeepsFlag(s, yellow_triggered, yellow_reason, new_duration) ==
  IF ~ s.finished /\ yellow_triggered
  THEN LET before_remaining == s._yellow_laps_remaining
           s1 == [ s EXCEPT !._yellow_laps_remaining = Max(@, new_duration) ]
       IN  IF s1._yellow_laps_remaining > before_remaining
           THEN _log(s1, "YEL", yellow_reason, s1._yellow_laps_remaining)
           ELSE s1
  ELSE s

\* The arming of the yellow flag that restarts the count at the duration drawn.
ArmYellow_Restarts(s, yellow_triggered, yellow_reason, new_duration) ==
  IF ~ s.finished /\ yellow_triggered
  THEN LET before_remaining == s._yellow_laps_remaining
           s1 == _set_flag([ s EXCEPT !._yellow_laps_remaining = new_duration ], "YELLOW")
       IN  IF s1._yellow_laps_remaining > before_remaining
           THEN _log(s1, "YEL", yellow_reason, s1._yellow_laps_remaining)
           ELSE s1
  ELSE s

\* step_lap's arming of the yellow flag; new_duration is the randint draw.
ArmYellow(s, yellow_triggered, yellow_reason, new_duration) ==
  IF ~ s.finished /\ yellow_triggered
  THEN LET before_remaining == s._yellow_laps_remaining
           s1 == _set_flag([ s EXCEPT !._yellow_laps_remaining = Max(@, new_duration) ], "YELLOW")
       IN  IF s1._yellow_laps_remaining > before_remaining
           THEN _log(s1, "YEL", yellow_reason, s1._yellow_laps_remaining)
           ELSE s1
  ELSE s

(***************************************************************************)
(* The draws of one competitor's lap.  A draw the code does not make on    *)
(* the path taken is held at one value, and the bound MaxIncidents caps    *)
(* how often the draws may come out as a retirement or as a time loss in   *)
(* one session (rng.hits, which is MaxIncidents or one more).              *)
(***************************************************************************)
MaxOf(S) == CHOOSE x \in S : \A y \in S : x >= y

Retired(s) == { n \in Names(s) : s.drivers[n].status = "DNF" }
TimeLosses(s) == Cardinality({ i \in 1..Len(s.events) : s.events[i].kind \in {"COL", "INC"} })

DriverDraws(c, n) ==
  LET s == c.s
      d == s.drivers[n]
      top == MaxOf(RandomSamples)
      pen0 == MinOf(CollisionPenaltySamples)
      loss0 == MinOf(IncidentLossSamples)
      pit0 == MinOf(PitExtraSamples)
      sc0 == MinOf(s.rng.scatter)
      idle == d.status # "RUNNING" \/ d.lap >= s.track_laps
      All == [ collision : RandomSamples, collision_dnf : RandomSamples,
               penalty : CollisionPenaltySamples, incident : RandomSamples,
               loss : IncidentLossSamples, dnf : RandomSamples,
               pit_extra : PitExtraSamples, scatter : s.rng.scatter ]
  IN  { dr \in All :
          LET collided == dr.collision < s.config.collision_chance_per_lap
              out == collided /\ dr.collision_dnf < s.config.collision_dnf_probability
              hit == collided /\ ~ out
              inc == ~ out /\ dr.incident < s.config.incident_chance_per_lap
              dnf == ~ out /\ dr.dnf < _dnf_chance(s, d.skill)
          IN  IF idle
              THEN dr = [ collision |-> top, collision_dnf |-> top, penalty |-> pen0,
                          incident |-> top, loss |-> loss0, dnf |-> top,
                          pit_extra |-> pit0, scatter |-> sc0 ]
              ELSE /\ Cardinality(Retired(s)) + TimeLosses(s)
                        + (IF out \/ dnf THEN 1 ELSE 0)
                        + (IF hit THEN 1 ELSE 0) + (IF inc THEN 1 ELSE 0) <= s.rng.hits
                   /\ ~ collided => dr.collision_dnf = top
                   /\ ~ hit => dr.penalty = pen0
                   /\ out => dr.incident = top /\ dr.dnf = top
                   /\ ~ inc => dr.loss = loss0
                   /\ (out \/ dnf) => dr.scatter = sc0 /\ dr.pit_extra = pit0 }

\* step_lap's loop over self.drivers, from the competitor named n on: the
\* contexts it can end in from the contexts C.
RECURSIVE LoopDrivers(_, _, _)
LoopDrivers(C, n, yellow_active) ==
  IF \A c \in C : n \notin Names(c.s) THEN C
  ELSE LoopDrivers(
         UNION { { DriverStep(c, n, yellow_active, dr) : dr \in DriverDraws(c, n) } : c \in C },
         n + 1, yellow_active)

\* step_lap from the start of the lap on: the sessions it can end in.
LapOutcomes(s) ==
  LET yellow_active == is_yellow_active(s)
      s1 == StartOfLap(s)
      order_before == IF yellow_active THEN sorted_running(s1) ELSE << >>
      C == LoopDrivers({ [ s |-> s1, yellow_triggered |-> FALSE, yellow_reason |-> 0 ] },
                       1, yellow_active)
  IN  UNION { LET s2 == EndOfRace(Positions(c.s, yellow_active, order_before))
              IN  { ArmYellow(s2, c.yellow_triggered, c.yellow_reason, new_duration) :
                      new_duration \in IF ~ s2.finished /\ c.yellow_triggered
                                       THEN YellowDurations(s2)
                                       ELSE { s2.config.yellow_flag_min_laps } }
            : c \in C }

\* rng.uniform(rf_min, rf_max), in minutes
RedFlagMinutes(s) ==
  { s.config.red_flag_duration_min_minutes, s.config.red_flag_duration_max_minutes }

\* The check of the ceiling against the slowest Running competitor.
OverTimeLimit_Slowest(s) ==
  LET active_times == { s.drivers[n].total_time_s : n \in { k \in Names(s) : s.drivers[k].status = "RUNNING" } }
  IN  active_times # {} /\ MaxOf(active_times) >= s.config.race_sim_max_seconds

\* step_lap's check of the simulated-time ceiling
OverTimeLimit(s) ==
  LET active_times == { s.drivers[n].total_time_s : n \in { k \in Names(s) : s.drivers[k].status = "RUNNING" } }
  IN  active_times # {} /\ MinOf(active_times) >= s.config.race_sim_max_seconds

\* step_lap past its guards, drawing the red flag whatever the laps since the last one.
RunStep_NoCooldown(s) ==
  IF OverTimeLimit(s)
  THEN { [ s |-> [ _log(s, "FIA", 0, 0) EXCEPT !.finished = TRUE ], how |-> "fia" ] }
  ELSE UNION {
         IF r < s.config.red_flag_chance_per_lap
         THEN { [ s |-> TriggerRedFlag(s, m), how |-> "red_flag" ] : m \in RedFlagMinutes(s) }
         ELSE { [ s |-> s2, how |-> IF is_yellow_active(s) THEN "yellow_lap" ELSE "lap" ] :
                  s2 \in LapOutcomes(s) }
         : r \in RandomSamples }

\* step_lap past its three guards: the time ceiling, the red flag, the lap.
RunStep(s) ==
  IF OverTimeLimit(s)
  THEN { [ s |-> [ _log(s, "FIA", 0, 0) EXCEPT !.finished = TRUE ], how |-> "fia" ] }
  ELSE UNION {
         IF /\ (s._lap_index - s._last_red_flag_lap) >= s.config.red_flag_cooldown_laps
            /\ r < s.config.red_flag_chance_per_lap
         THEN { [ s |-> TriggerRedFlag(s, m), how |-> "red_flag" ] : m \in RedFlagMinutes(s) }
         ELSE { [ s |-> s2, how |-> IF is_yellow_active(s) THEN "yellow_lap" ELSE "lap" ] :
                  s2 \in LapOutcomes(s) }
         : r \in RandomSamples }

\* step_lap without the check that the race was started.
step_lap_NoStartCheck(s) ==
  IF s.finished THEN { [ s |-> s, how |-> "noop" ] }
  ELSE IF s._red_flag_active THEN { [ s |-> s, how |-> "noop" ] }
  ELSE RunStep(s)

\* step_lap without the return when the race is finished.
step_lap_IgnoresFinished(s) ==
  IF s.start_monotonic = NoneTime THEN { [ s |-> s, how |-> "raised" ] }
  ELSE IF s._red_flag_active THEN { [ s |-> s, how |-> "noop" ] }
  ELSE RunStep(s)

\* step_lap without the return when a red flag is active.
step_lap_IgnoresRed(s) ==
  IF s.start_monotonic = NoneTime THEN { [ s |-> s, how |-> "raised" ] }
  ELSE IF s.finished THEN { [ s |-> s, how |-> "noop" ] }
  ELSE RunStep(s)

\* RaceSimulation.step_lap: the sessions the call can end in, each with how
\* the call ended ("raised": RuntimeError("Race not started")).
step_lap(s) ==
  IF s.start_monotonic = NoneTime THEN { [ s |-> s, how |-> "raised" ] }
  ELSE IF s.finished THEN { [ s |-> s, how |-> "noop" ] }
  ELSE IF s._red_flag_active THEN { [ s |-> s, how |-> "noop" ] }
  ELSE RunStep(s)

(***************************************************************************)
(* The session after construction and the calls on it                      *)
(***************************************************************************)
\* rng.random() in choose_start_tires: a sample that picks SOFT and one that
\* picks HARD
TirePickSamples == {300000, 900000}

\* The configuration of the sessions checked: the default one with a yellow
\* flag of 1 or 2 laps, so that it ends within TrackLaps laps.
SessionConfig ==
  [ DefaultConfig EXCEPT !.yellow_flag_min_laps = 1, !.yellow_flag_max_laps = 2 ]

\* The same with the red flag, the collisions and the incidents switched off
\* (their chances are 0): competitors still retire.
RetirementsOnlyConfig ==
  [ SessionConfig EXCEPT !.red_flag_chance_per_lap = 0,
                         !.collision_chance_per_lap = 0,
                         !.incident_chance_per_lap = 0 ]

\* The same with a ceiling of simulated time that two laps may exceed.
ShortCeilingConfig == [ SessionConfig EXCEPT !.race_sim_max_seconds = 178 * 1000 ]

\* A configuration whose yellow_flag_max_laps is below its
\* yellow_flag_min_laps, which step_lap raises to the minimum.
InvertedYellowConfig ==
  [ RetirementsOnlyConfig EXCEPT !.yellow_flag_min_laps = 2, !.yellow_flag_max_laps = 1 ]

\* random.Random(): the values rng.uniform(-0.3, 0.3) returns in a lap time.
UnseededRng == [ scatter |-> ScatterSamples, hits |-> MaxIncidents ]

\* An rng seeded so that every rng.uniform(-0.3, 0.3) returns the same value.
SeededRng == [ scatter |-> {0}, hits |-> MaxIncidents ]

\* The seeded generator, with one more retirement or time loss in a session.
EventfulRng == [ scatter |-> {0}, hits |-> MaxIncidents + 1 ]

\* The sessions constructed: NumDrivers competitors in a dry race with the
\* flag-aware strategy, in a wet race with the default strategy and a short
\* ceiling, and in a dry race with the default strategy and the inverted
\* yellow range, and a field of one more competitor in a dry race in which
\* competitors only retire.
Sessions ==
  { [ n |-> NumDrivers, track_laps |-> TrackLaps, raining |-> FALSE,
      pit_strategy |-> "Neutralization", config |-> SessionConfig,
      rng |-> UnseededRng ],
    [ n |-> NumDrivers, track_laps |-> TrackLaps, raining |-> TRUE,
      pit_strategy |-> "Default", config |-> ShortCeilingConfig,
      rng |-> UnseededRng ],
    [ n |-> NumDrivers, track_laps |-> TrackLaps, raining |-> FALSE,
      pit_strategy |-> "Default", config |-> InvertedYellowConfig,
      rng |-> UnseededRng ],
    [ n |-> NumDrivers + 1, track_laps |-> TrackLaps, raining |-> FALSE,
      pit_strategy |-> "Neutralization", config |-> RetirementsOnlyConfig,
      rng |-> UnseededRng ] }

\* RaceSimulation.__init__, for the session given
Constructed(session) ==
  /\ drivers = [ n \in 1..session.n |-> NewDriver(n) ]
  /\ events = << >>
  /\ start_monotonic = NoneTime
  /\ finished = FALSE
  /\ flag_state = "GREEN"
  /\ _red_flag_active = FALSE
  /\ _yellow_laps_remaining = 0
  /\ _driver_effects = [ n \in 1..session.n |-> DriverRaceEffects ]
  /\ _restart_memento = NoMemento
  /\ _prepared = FALSE
  /\ _lap_index = 0
  /\ _last_positions = << >>
  /\ _last_red_flag_lap = -10000
  /\ _planned_pit_lap = << >>
  /\ raining = session.raining
  /\ pit_strategy = session.pit_strategy
  /\ config = session.config
  /\ track_laps = session.track_laps
  /\ rng = session.rng
  /\ _paused_total_s = 0
  /\ _pause_started_monotonic = NoneTime
  /\ last_call = "none"

\* The clock when the session is constructed.
ClockAtZero ==
  /\ clock = 0
  /\ paused_time = 0
  /\ paused_time_since_start = 0
  /\ clock_paused = FALSE

\* run_race_ui is not running.
NoLoop ==
  /\ pc = "none"
  /\ log_index = 0
  /\ new_events = << >>
  /\ last_rf_seen = -1
  /\ received = << >>

\* No function is called on its own.
NoCall ==
  /\ arguments = << >>
  /\ result = << >>

Init ==
  /\ \E session \in Sessions : Constructed(session)
  /\ ClockAtZero
  /\ NoLoop
  /\ NoCall

\* How a step_lap call can end: it raised, it returned at once (finished or
\* red flag), it ended the race at the time ceiling, it triggered a red flag,
\* it ran a lap under green or under yellow.
StepHows == {"raised", "noop", "fia", "red_flag", "lap", "yellow_lap"}

Prepare ==
  \E picks \in [ DOMAIN drivers -> IF _prepared \/ raining THEN {MinOf(TirePickSamples)} ELSE TirePickSamples ],
     plans \in [ DOMAIN drivers -> IF _prepared \/ raining THEN {PlanMinLap} ELSE PlanMinLap..PlanMaxLap ] :
    LET s == prepare(Self, picks, plans)
    IN  /\ Becomes(s)
        /\ last_call' = IF s = Self THEN last_call ELSE "prepare"
        /\ UNCHANGED << clockVars, uiVars, callVars >>

Start ==
  \E picks \in [ DOMAIN drivers -> IF _prepared \/ raining THEN {MinOf(TirePickSamples)} ELSE TirePickSamples ],
     plans \in [ DOMAIN drivers -> IF _prepared \/ raining THEN {PlanMinLap} ELSE PlanMinLap..PlanMaxLap ] :
    LET s == start(Self, clock, picks, plans)
    IN  /\ Becomes(s)
        /\ last_call' = IF s = Self THEN last_call ELSE "start"
        /\ UNCHANGED << clockVars, uiVars, callVars >>

StepLap ==
  \E o \in step_lap(Self) :
    /\ Becomes(o.s)
    /\ last_call' = o.how
    /\ UNCHANGED << clockVars, uiVars, callVars >>

ClearRedFlag ==
  LET s == clear_red_flag(Self)
  IN  /\ Becomes(s)
      /\ last_call' = IF s = Self THEN last_call ELSE "clear_red_flag"
      /\ UNCHANGED << clockVars, uiVars, callVars >>

Next == Prepare \/ Start \/ StepLap \/ ClearRedFlag

Spec == Init /\ [][Next]_vars

(***************************************************************************)
(* The session with every call of prepare() and start() recorded, also the *)
(* calls that change nothing: a dry and a wet race in which competitors    *)
(* only retire.                                                            *)
(***************************************************************************)
RepeatedCallSessions ==
  { [ n |-> NumDrivers, track_laps |-> TrackLaps, raining |-> FALSE,
      pit_strategy |-> "Neutralization", config |-> RetirementsOnlyConfig,
      rng |-> UnseededRng ],
    [ n |-> NumDrivers, track_laps |-> TrackLaps, raining |-> TRUE,
      pit_strategy |-> "Default", config |-> RetirementsOnlyConfig,
      rng |-> UnseededRng ] }

InitRepeatedCalls ==
  /\ \E session \in RepeatedCallSessions : Constructed(session)
  /\ ClockAtZero
  /\ NoLoop
  /\ NoCall

PrepareCall ==
  \E picks \in [ DOMAIN drivers -> IF _prepared \/ raining THEN {MinOf(TirePickSamples)} ELSE TirePickSamples ],
     plans \in [ DOMAIN drivers -> IF _prepared \/ raining THEN {PlanMinLap} ELSE PlanMinLap..PlanMaxLap ] :
    /\ Becomes(prepare(Self, picks, plans))
    /\ last_call' = "prepare"
    /\ UNCHANGED << clockVars, uiVars, callVars >>

StartCall ==
  \E picks \in [ DOMAIN drivers -> IF _prepared \/ raining THEN {MinOf(TirePickSamples)} ELSE TirePickSamples ],
     plans \in [ DOMAIN drivers -> IF _prepared \/ raining THEN {PlanMinLap} ELSE PlanMinLap..PlanMaxLap ] :
    /\ Becomes(start(Self, clock, picks, plans))
    /\ last_call' = "start"
    /\ UNCHANGED << clockVars, uiVars, callVars >>

NextRepeatedCalls == PrepareCall \/ StartCall \/ StepLap

SpecRepeatedCalls == InitRepeatedCalls /\ [][NextRepeatedCalls]_vars

(***************************************************************************)
(* The session with a consumer of its event log, which polls it with the   *)
(* cursor the last poll returned, between any two calls on the session.    *)
(***************************************************************************)
ConsumerSessions ==
  { [ n |-> NumDrivers, track_laps |-> TrackLaps, raining |-> FALSE,
      pit_strategy |-> "Neutralization", config |-> SessionConfig,
      rng |-> SeededRng ] }

InitConsumer ==
  /\ \E session \in ConsumerSessions : Constructed(session)
  /\ ClockAtZero
  /\ NoLoop
  /\ NoCall

\* log_index, new_events = sim.pop_new_events(log_index)
Poll ==
  LET polled == pop_new_events(Self, log_index)
  IN  /\ log_index' = polled.cursor
      /\ new_events' = polled.new
      /\ received' = received \o polled.new
      /\ last_call' = "pop_new_events"
      /\ UNCHANGED << sessionVars, clockVars, pc, last_rf_seen, callVars >>

NextConsumer == Prepare \/ Start \/ StepLap \/ ClearRedFlag \/ Poll

SpecConsumer == InitConsumer /\ [][NextConsumer]_vars

(***************************************************************************)
(* The clock of the session: time.monotonic() advances in ticks up to      *)
(* MaxClock, and start(), pause_clock() and resume_clock() are called in   *)
(* any order between the ticks.                                            *)
(***************************************************************************)
MaxClock == 5

ClockSessions ==
  { [ n |-> NumDrivers, track_laps |-> TrackLaps, raining |-> TRUE,
      pit_strategy |-> "Default", config |-> SessionConfig,
      rng |-> SeededRng ] }

InitClock ==
  /\ \E session \in ClockSessions : Constructed(session)
  /\ ClockAtZero
  /\ NoLoop
  /\ NoCall

\* time.monotonic() advances by one tick.
Tick ==
  /\ clock < MaxClock
  /\ clock' = clock + 1
  /\ paused_time' = IF clock_paused THEN paused_time + 1 ELSE paused_time
  /\ paused_time_since_start' =
       IF clock_paused /\ start_monotonic # NoneTime
       THEN paused_time_since_start + 1 ELSE paused_time_since_start
  /\ last_call' = "tick"
  /\ UNCHANGED << sessionVars, clock_paused, uiVars, callVars >>

PauseClock ==
  /\ Becomes(pause_clock(Self, clock))
  /\ clock_paused' = TRUE
  /\ last_call' = "pause_clock"
  /\ UNCHANGED << clock, paused_time, paused_time_since_start, uiVars, callVars >>

ResumeClock ==
  /\ Becomes(resume_clock(Self, clock))
  /\ clock_paused' = FALSE
  /\ last_call' = "resume_clock"
  /\ UNCHANGED << clock, paused_time, paused_time_since_start, uiVars, callVars >>

NextClock == Tick \/ Start \/ PauseClock \/ ResumeClock

SpecClock == InitClock /\ [][NextClock]_vars

(***************************************************************************)
(* Driver.pick_next_compound called on its own, on a competitor as         *)
(* constructed or as a race leaves one: with tires of some compound and    *)
(* wear mounted, and with that compound among those used.                  *)
(***************************************************************************)
TireTypes == {"SOFT", "MEDIUM", "HARD", "WET"}

\* wear_percent: worn out, just below and at 10 %, in between, new
WearSamples == {0, 99999, 100000, 500000, 1000000}

CompoundDrivers ==
  { NewDriver(1) } \cup
  { [ NewDriver(1) EXCEPT !.tires = [ tire_type |-> tt, wear_percent |-> w ],
                          !.used_compounds = used ] :
      << tt, w, used >> \in { x \in TireTypes \X WearSamples \X SUBSET TireTypes :
                                 x[1] \in x[3] } }

InitPickNextCompound ==
  /\ \E session \in ClockSessions : Constructed(session)
  /\ ClockAtZero
  /\ NoLoop
  /\ arguments \in CompoundDrivers \X BOOLEAN
  /\ result = << >>

PickNextCompound ==
  /\ result = << >>
  /\ result' = << pick_next_compound(arguments[1], arguments[2]) >>
  /\ UNCHANGED << sessionVars, last_call, clockVars, uiVars, arguments >>

NextPickNextCompound == PickNextCompound

SpecPickNextCompound == InitPickNextCompound /\ [][NextPickNextCompound]_vars

(***************************************************************************)
(* sorted_finished_and_running() and sorted_running() called on a field as *)
(* a race leaves it: the competitors still in the race are all Running on  *)
(* the lap of the race, or all Finished, and every other one has retired   *)
(* on an earlier lap.                                                      *)
(***************************************************************************)
FieldSize == 3
FieldLap == 2

\* total_time_s: few values, so that competitors tie
TotalTimeSamples == {180000, 181000, 182000}

Fields ==
  { [ n \in 1..FieldSize |->
        [ NewDriver(n) EXCEPT !.status = IF retired_on[n] < FieldLap THEN "DNF" ELSE active,
                              !.lap = retired_on[n],
                              !.total_time_s = totals[n] ] ] :
      << active, retired_on, totals >> \in
        {"RUNNING", "FINISHED"} \X [ 1..FieldSize -> 0..FieldLap ]
                                \X [ 1..FieldSize -> TotalTimeSamples ] }

InitStandings ==
  /\ \E session \in ClockSessions : Constructed(session)
  /\ ClockAtZero
  /\ NoLoop
  /\ arguments \in { << field >> : field \in Fields }
  /\ result = << >>

Standings ==
  /\ result = << >>
  /\ LET s == [ Self EXCEPT !.drivers = arguments[1] ]
     IN  result' = << sorted_finished_and_running(s), sorted_running(s) >>
  /\ UNCHANGED << sessionVars, last_call, clockVars, uiVars, arguments >>

NextStandings == Standings

SpecStandings == InitStandings /\ [][NextStandings]_vars

(***************************************************************************)
(* run_race_ui on a session that app.run constructed and prepared. pc is   *)
(* the statement the loop is at. The loop is one thread that runs on: each *)
(* of its statements returns (step_lap and pop_new_events are finite, the  *)
(* red-flag wait and the sleep end after their time), so a statement that  *)
(* can be taken is taken.                                                  *)
(***************************************************************************)
\* The configuration of the sessions run: the one of the sessions above with
\* the red flag left as the only thing that happens by chance.
RedFlagOnlyConfig ==
  [ SessionConfig EXCEPT !.collision_chance_per_lap = 0,
                         !.incident_chance_per_lap = 0,
                         !.dnf_chance_scale = 0 ]

UiSessions ==
  { [ n |-> NumDrivers, track_laps |-> TrackLaps, raining |-> FALSE,
      pit_strategy |-> strategy, config |-> RedFlagOnlyConfig,
      rng |-> SeededRng ] : strategy \in {"Default", "Neutralization"} }

InitUi ==
  /\ \E session \in UiSessions : Constructed(session)
  /\ ClockAtZero
  /\ pc = "prepare"
  /\ log_index = 0
  /\ new_events = << >>
  /\ last_rf_seen = -1
  /\ received = << >>
  /\ NoCall

\* app.run: sim.prepare()
RunPrepare ==
  /\ pc = "prepare"
  /\ \E picks \in [ DOMAIN drivers -> TirePickSamples ],
        plans \in [ DOMAIN drivers -> PlanMinLap..PlanMaxLap ] :
       Becomes(prepare(Self, picks, plans))
  /\ last_call' = "prepare"
  /\ pc' = "start"
  /\ UNCHANGED << clockVars, log_index, new_events, last_rf_seen, received, callVars >>

\* sim.start(); last_rf_seen = -1
UiStart ==
  /\ pc = "start"
  /\ \E picks \in [ DOMAIN drivers -> {MinOf(TirePickSamples)} ],
        plans \in [ DOMAIN drivers -> {PlanMinLap} ] :
       Becomes(start(Self, clock, picks, plans))
  /\ last_call' = "start"
  /\ last_rf_seen' = -1
  /\ pc' = "while"
  /\ UNCHANGED << clockVars, log_index, new_events, received, callVars >>

\* while not sim.finished: sim.step_lap()
UiStepLap ==
  /\ pc = "while"
  /\ ~finished
  /\ \E o \in step_lap(Self) :
       /\ Becomes(o.s)
       /\ last_call' = o.how
  /\ pc' = "pop"
  /\ UNCHANGED << clockVars, log_index, new_events, last_rf_seen, received, callVars >>

\* while not sim.finished: the loop is left
UiExit ==
  /\ pc = "while"
  /\ finished
  /\ pc' = "done"
  /\ UNCHANGED << sessionVars, last_call, clockVars, log_index, new_events,
                  last_rf_seen, received, callVars >>

\* log_index, new_events = sim.pop_new_events(log_index), and the lines
\* appended for the new events
UiPopNewEvents ==
  /\ pc = "pop"
  /\ LET polled == pop_new_events(Self, log_index)
     IN  /\ log_index' = polled.cursor
         /\ new_events' = polled.new
         /\ received' = received \o polled.new
  /\ pc' = "red_flag"
  /\ UNCHANGED << sessionVars, last_call, clockVars, last_rf_seen, callVars >>

\* for ev in new_events: if ev.kind == "RF" and log_index != last_rf_seen
UiCheckRedFlag ==
  /\ pc = "red_flag"
  /\ IF (\E i \in 1..Len(new_events) : new_events[i].kind = "RF")
        /\ log_index # last_rf_seen
     THEN last_rf_seen' = log_index /\ pc' = "wait"
     ELSE last_rf_seen' = last_rf_seen /\ pc' = "sleep"
  /\ UNCHANGED << sessionVars, last_call, clockVars, log_index, new_events,
                  received, callVars >>

\* _wait_red_flag: it prints, waits for its time or for Enter, and returns.
UiWaitRedFlag ==
  /\ pc = "wait"
  /\ pc' = "sleep"
  /\ UNCHANGED << sessionVars, last_call, clockVars, log_index, new_events,
                  last_rf_seen, received, callVars >>

\* The tables are rendered; time.sleep(per_lap_sleep)
UiSleep ==
  /\ pc = "sleep"
  /\ pc' = "while"
  /\ UNCHANGED << sessionVars, last_call, clockVars, log_index, new_events,
                  last_rf_seen, received, callVars >>

NextUi ==
  \/ RunPrepare \/ UiStart \/ UiStepLap \/ UiExit \/ UiPopNewEvents
  \/ UiCheckRedFlag \/ UiWaitRedFlag \/ UiSleep

SpecUi == InitUi /\ [][NextUi]_vars /\ WF_vars(NextUi)

(***************************************************************************)
(* The dry race of ScenarioLaps laps with ScenarioDrivers competitors in   *)
(* which nothing happens by chance: no collision, no incident, no          *)
(* retirement, no red flag.                                                *)
(***************************************************************************)
ScenarioLaps == 5
ScenarioDrivers == 3

QuietConfig ==
  [ DefaultConfig EXCEPT !.collision_chance_per_lap = 0,
                         !.incident_chance_per_lap = 0,
                         !.red_flag_chance_per_lap = 0,
                         !.dnf_chance_scale = 0 ]

QuietSessions ==
  { [ n |-> ScenarioDrivers, track_laps |-> ScenarioLaps, raining |-> FALSE,
      pit_strategy |-> strategy, config |-> QuietConfig, rng |-> SeededRng ] :
    strategy \in {"Default", "Neutralization"} }

InitQuietRace ==
  /\ \E session \in QuietSessions : Constructed(session)
  /\ ClockAtZero
  /\ NoLoop
  /\ NoCall

NextQuietRace == Prepare \/ Start \/ StepLap

SpecQuietRace == InitQuietRace /\ [][NextQuietRace]_vars

(***************************************************************************)
(* A dry race long enough for tires to wear below 35 % before the planned  *)
(* stop, run with the flag-aware strategy: competitors may retire, which   *)
(* arms the yellow flag; nothing else happens by chance. The planned pit   *)
(* laps are drawn at the two ends of their range.                          *)
(***************************************************************************)
LongRaceLaps == 100
LongRaceDrivers == 2

LongRaceSessions ==
  { [ n |-> LongRaceDrivers, track_laps |-> LongRaceLaps, raining |-> FALSE,
      pit_strategy |-> "Neutralization", config |-> RetirementsOnlyConfig,
      rng |-> SeededRng ] }

InitLongRace ==
  /\ \E session \in LongRaceSessions : Constructed(session)
  /\ ClockAtZero
  /\ NoLoop
  /\ NoCall

\* start() on a session that was not started, with one draw for the start tires and
\* rng.randint(min_lap, max_lap) drawing min_lap or max_lap
StartSampled ==
  /\ start_monotonic = NoneTime
  /\ \E picks \in [ DOMAIN drivers -> {MinOf(TirePickSamples)} ],
        plans \in [ DOMAIN drivers -> {PlanMinLap, PlanMaxLap} ] :
       Becomes(start(Self, clock, picks, plans))
  /\ last_call' = "start"
  /\ UNCHANGED << clockVars, uiVars, callVars >>

NextLongRace == StartSampled \/ StepLap

SpecLongRace == InitLongRace /\ [][NextLongRace]_vars

(***************************************************************************)
(* Sessions with a short red-flag cooldown, 0 included, in which only red  *)
(* flags happen by chance. With a cooldown of 0 a red flag can follow a    *)
(* red flag without a lap in between, so the model stops drawing red flags *)
(* after MaxRedFlags of them.                                              *)
(***************************************************************************)
MaxCooldown == 2
MaxRedFlags == 3

CooldownSessions ==
  { [ n |-> NumDrivers, track_laps |-> TrackLaps, raining |-> FALSE,
      pit_strategy |-> "Default",
      config |-> [ RedFlagOnlyConfig EXCEPT !.red_flag_cooldown_laps = cooldown ],
      rng |-> SeededRng ] : cooldown \in 0..MaxCooldown }

InitCooldown ==
  /\ \E session \in CooldownSessions : Constructed(session)
  /\ ClockAtZero
  /\ NoLoop
  /\ NoCall

\* The number of red flags in the log.
RedFlags == Cardinality({ i \in 1..Len(events) : events[i].kind = "RF" })

StepLapCooldown ==
  \E o \in step_lap(Self) :
    /\ o.how = "red_flag" => RedFlags < MaxRedFlags
    /\ Becomes(o.s)
    /\ last_call' = o.how
    /\ UNCHANGED << clockVars, uiVars, callVars >>

NextCooldown == Start \/ StepLapCooldown \/ ClearRedFlag

SpecCooldown == InitCooldown /\ [][NextCooldown]_vars

(***************************************************************************)
(* A dry race in which two of three competitors may retire, so that a      *)
(* retirement can fall into a running yellow period, of up to             *)
(* LongYellowLaps laps.                                                    *)
(***************************************************************************)
LongYellowLaps == 3

EventfulSessions ==
  { [ n |-> NumDrivers + 1, track_laps |-> TrackLaps, raining |-> FALSE,
      pit_strategy |-> "Default", config |-> cfg, rng |-> EventfulRng ] :
    cfg \in { [ RetirementsOnlyConfig EXCEPT !.yellow_flag_max_laps = LongYellowLaps ],
              InvertedYellowConfig } }

InitEventful ==
  /\ \E session \in EventfulSessions : Constructed(session)
  /\ ClockAtZero
  /\ NoLoop
  /\ NoCall

NextEventful == Start \/ StepLap

SpecEventful == InitEventful /\ [][NextEventful]_vars

(***************************************************************************)
(* Dry races of one lap, of two laps and of up to MoreDryLaps more, with   *)
(* either strategy and every event of chance.                              *)
(***************************************************************************)
MoreDryLaps == 2

DryRaceSessions ==
  { [ n |-> NumDrivers, track_laps |-> laps, raining |-> FALSE,
      pit_strategy |-> strategy, config |-> SessionConfig, rng |-> SeededRng ] :
    laps \in 1..(2 + MoreDryLaps),
    strategy \in {"Default", "Neutralization"} }

InitDryRaces ==
  /\ \E session \in DryRaceSessions : Constructed(session)
  /\ ClockAtZero
  /\ NoLoop
  /\ NoCall

NextDryRaces == Start \/ StepLap \/ ClearRedFlag

SpecDryRaces == InitDryRaces /\ [][NextDryRaces]_vars

(***************************************************************************)
(* A caller that starts the race, calls step_lap again and again and calls *)
(* clear_red_flag after every red flag, on sessions with a red-flag        *)
(* cooldown of at least one lap. The caller goes on calling: the           *)
(* specification is weakly fair for its calls.                             *)
(***************************************************************************)
RestartSessions ==
  { [ n |-> NumDrivers, track_laps |-> TrackLaps, raining |-> FALSE,
      pit_strategy |-> "Default",
      config |-> [ RedFlagOnlyConfig EXCEPT !.red_flag_cooldown_laps = cooldown ],
      rng |-> SeededRng ] : cooldown \in 1..MaxCooldown }

InitRestart ==
  /\ \E session \in RestartSessions : Constructed(session)
  /\ ClockAtZero
  /\ NoLoop
  /\ NoCall

RestartStepLap ==
  /\ start_monotonic # NoneTime
  /\ ~ _red_flag_active
  /\ StepLap

RestartClearRedFlag ==
  /\ _red_flag_active
  /\ ClearRedFlag

NextRestart == StartSampled \/ RestartStepLap \/ RestartClearRedFlag

SpecRestart == InitRestart /\ [][NextRestart]_vars /\ WF_vars(NextRestart)

(***************************************************************************)
(* Properties of the session.                                              *)
(***************************************************************************)
\* The Running competitors in the order of their total time.
RunningOrder == sorted_running(Self)

\* A step that is a call of step_lap, or of prepare or start.
StepLapCall == last_call' \in StepHows
PrepareOrStartCall == last_call' \in {"prepare", "start"}
ClearRedFlagCall == last_call' = "clear_red_flag"

\* The positions in events' of the events the step logged.
NewEventIndexes == (Len(events) + 1)..Len(events')

\* The total times of the competitors of one status.
TimesOf(status) ==
  { drivers[n].total_time_s : n \in { k \in DOMAIN drivers : drivers[k].status = status } }

\* No competitor's total time is lower after the step than before it.
NonDecreasingTotals ==
  \A n \in DOMAIN drivers : drivers'[n].total_time_s >= drivers[n].total_time_s

\* C1 as stated: no call ever lowers a competitor's accumulated total time.
C1_TotalTimeNeverDecreases == [][NonDecreasingTotals]_vars

\* C1 amended: a prepare, start or step_lap call never lowers a competitor's
\* total time; a clear_red_flag call with a captured order sets the total of
\* the i-th Running competitor of that order (i from 0) to the leader's total
\* plus i times restart_gap_s, which may be lower than before but never
\* lower than the leader's, and leaves every other competitor's total alone.
C1_TotalTimeLoweredOnlyByRestart ==
  [][ /\ (StepLapCall \/ PrepareOrStartCall) => NonDecreasingTotals
      /\ ClearRedFlagCall =>
           \A n \in DOMAIN drivers :
             IF _restart_memento.present /\ drivers[n].status = "RUNNING"
             THEN /\ drivers'[n].total_time_s =
                       drivers[RunningOrder[1]].total_time_s
                         + (IndexOf(_restart_memento.running_order, n) - 1) * config.restart_gap_s
                  /\ drivers'[n].total_time_s >= drivers[RunningOrder[1]].total_time_s
             ELSE drivers'[n].total_time_s = drivers[n].total_time_s ]_vars

\* A restart after the first lap has pulled a competitor that was more than
\* restart_gap_s behind up to restart_gap_s behind the leader.
C1_Witness ==
  /\ last_call = "clear_red_flag"
  /\ _lap_index = 1
  /\ \E a, b \in DOMAIN drivers :
       /\ drivers[a].status = "RUNNING" /\ drivers[b].status = "RUNNING"
       /\ drivers[b].total_time_s - drivers[a].total_time_s = config.restart_gap_s
       /\ drivers[b].last_lap_s - drivers[a].last_lap_s > config.restart_gap_s

\* C2: the order captured when a red flag is triggered is the Running order
\* at that moment, and clear_red_flag leaves the Running competitors in
\* exactly that order, each at least restart_gap_s behind the one ahead.
C2_RestartRestoresCapturedOrder ==
  [][ /\ last_call' = "red_flag" =>
           /\ _restart_memento'.present
           /\ _restart_memento'.running_order = RunningOrder
      /\ ClearRedFlagCall /\ _restart_memento.present =>
           /\ RunningOrder' = _restart_memento.running_order
           /\ \A i \in 2..Len(RunningOrder') :
                drivers'[RunningOrder'[i]].total_time_s
                  - drivers'[RunningOrder'[i - 1]].total_time_s >= config.restart_gap_s ]_vars

\* A restart has put the second competitor of the list ahead of the first.
C2_Witness ==
  /\ last_call = "clear_red_flag"
  /\ Len(RunningOrder) >= 2
  /\ RunningOrder[1] > RunningOrder[2]
  /\ \E i \in 1..Len(events) : events[i].kind = "RF"

\* The order before the step restricted to those Running after it, and the
\* order after the step restricted to those Running before it.
StillRunning(order) == SelectSeq(order, LAMBDA n : drivers'[n].status = "RUNNING")
WasRunning(order) == SelectSeq(order, LAMBDA n : drivers[n].status = "RUNNING")
NoOvertakeLogged == \A i \in NewEventIndexes : events'[i].kind # "OVT"

\* A step that is a call of step_lap begun while the yellow flag is active.
StepLapCallUnderYellow == StepLapCall /\ is_yellow_active(Self)

\* C3 as stated: after a step_lap call begun under yellow, the Running order
\* restricted to the competitors that were Running before the call is the
\* Running order before the call, and the call logs no overtake.
C3_YellowKeepsOrder ==
  [][ StepLapCallUnderYellow =>
        WasRunning(RunningOrder') = RunningOrder /\ NoOvertakeLogged ]_vars

\* C3 amended: a step_lap call begun under yellow leaves the competitors
\* that are still Running after it in the relative order they had before it
\* (those that retired or finished in the call drop out of the order) and
\* logs no overtake.
C3_YellowKeepsOrderOfStillRunning ==
  [][ StepLapCallUnderYellow =>
        RunningOrder' = StillRunning(RunningOrder) /\ NoOvertakeLogged ]_vars

\* A lap under yellow in which the competitor behind drove the faster lap and
\* was held yellow_min_gap_s behind the one ahead.
C3_Witness ==
  /\ last_call = "yellow_lap"
  /\ Len(RunningOrder) >= 2
  /\ drivers[RunningOrder[2]].total_time_s - drivers[RunningOrder[1]].total_time_s
       = config.yellow_min_gap_s
  /\ drivers[RunningOrder[2]].last_lap_s < drivers[RunningOrder[1]].last_lap_s

\* C4: a competitor that is DNF or Finished is changed by no later call:
\* status, lap count, total time, tires and pit stops stay as they are.
C4_RetiredAndFinishedAreFrozen ==
  [][ \A n \in DOMAIN drivers :
        drivers[n].status \in {"DNF", "FINISHED"} => drivers'[n] = drivers[n] ]_vars

\* A competitor retired, a red flag came and was cleared, and a lap was run
\* afterwards.
C4_Witness ==
  /\ ~ _red_flag_active
  /\ \E i, j, k \in 1..Len(events) :
       /\ i < j /\ j < k
       /\ events[i].kind = "DNF"
       /\ events[j].kind = "RF"
       /\ events[k].kind \in {"FIN", "PIT"}

\* C5: the step_lap call that triggers a red flag adds one stoppage, between
\* the configured minimum and maximum minutes, to the total
\* of every competitor that is not DNF and nothing to a DNF one,
\* advances no lap count and not the lap index, logs the one event RF and
\* leaves the flag RED.
C5_RedFlagAddsOneStoppage ==
  [][ last_call' = "red_flag" =>
        /\ \E m \in config.red_flag_duration_min_minutes..config.red_flag_duration_max_minutes :
             \A n \in DOMAIN drivers :
               drivers'[n] = IF drivers[n].status # "DNF"
                             THEN [ drivers[n] EXCEPT !.total_time_s = @ + m * 60 * 1000 ]
                             ELSE drivers[n]
        /\ _lap_index' = _lap_index
        /\ flag_state' = "RED" /\ _red_flag_active'
        /\ Len(events') = Len(events) + 1
        /\ SubSeq(events', 1, Len(events)) = events
        /\ events'[Len(events')].kind = "RF" ]_vars

\* A red flag was triggered with one competitor retired and one Running.
C5_Witness ==
  /\ last_call = "red_flag"
  /\ \E n \in DOMAIN drivers : drivers[n].status = "DNF"
  /\ \E n \in DOMAIN drivers : drivers[n].status = "RUNNING"

\* C6: a step_lap call while the race is finished or a red flag is active
\* changes nothing, and the flag leaves RED only by clear_red_flag.
C6_StepLapIdleWhenFinishedOrRed ==
  [][ /\ StepLapCall /\ (finished \/ _red_flag_active) =>
           last_call' = "noop" /\ UNCHANGED sessionVars
      /\ flag_state = "RED" /\ flag_state' # "RED" => ClearRedFlagCall ]_vars

\* step_lap was called under an active red flag.
C6_Witness ==
  /\ last_call = "noop"
  /\ _red_flag_active
  /\ flag_state = "RED"

\* C7: a step_lap call before the race was started raises and changes
\* nothing.
C7_StepLapBeforeStartRaises ==
  [][ StepLapCall /\ start_monotonic = NoneTime =>
        last_call' = "raised" /\ UNCHANGED sessionVars ]_vars

\* step_lap was called on a prepared session that was not started.
C7_Witness ==
  /\ last_call = "raised"
  /\ _prepared
  /\ start_monotonic = NoneTime

\* The competitors the step retired.
RetiredNow ==
  { n \in DOMAIN drivers : drivers[n].status = "RUNNING" /\ drivers'[n].status = "DNF" }

\* The step logged a DNF event that names each competitor it retired.
RetirementsLogged ==
  \A n \in RetiredNow :
    \E i \in NewEventIndexes : events'[i].kind = "DNF" /\ events'[i].who = n

\* C8 as stated: a step_lap call that retires a competitor logs a DNF event
\* that names it and, unless the call ended the race, leaves the flag YELLOW
\* with a remaining duration between yellow_flag_min_laps and
\* yellow_flag_max_laps.
C8_RetirementArmsYellowWithinMinAndMax ==
  [][ StepLapCall /\ RetiredNow # {} =>
        /\ RetirementsLogged
        /\ ~ finished' =>
             /\ flag_state' = "YELLOW"
             /\ _yellow_laps_remaining' >= config.yellow_flag_min_laps
             /\ _yellow_laps_remaining' <= config.yellow_flag_max_laps ]_vars

\* C8 amended: a step_lap call that retires a competitor logs a DNF event
\* that names it and, unless the call ended the race, leaves the flag YELLOW
\* with a remaining duration between yellow_flag_min_laps and the larger of
\* yellow_flag_min_laps and yellow_flag_max_laps (a maximum configured below
\* the minimum is raised to the minimum).
C8_RetirementArmsYellow ==
  [][ StepLapCall /\ RetiredNow # {} =>
        /\ RetirementsLogged
        /\ ~ finished' =>
             /\ flag_state' = "YELLOW"
             /\ _yellow_laps_remaining' >= config.yellow_flag_min_laps
             /\ _yellow_laps_remaining' <=
                  Max(config.yellow_flag_min_laps, config.yellow_flag_max_laps) ]_vars

\* A lap retired a competitor and armed the yellow flag for it, under a
\* configuration whose maximum is below its minimum.
C8_Witness ==
  /\ last_call \in {"lap", "yellow_lap"}
  /\ config.yellow_flag_max_laps < config.yellow_flag_min_laps
  /\ _yellow_laps_remaining = config.yellow_flag_min_laps
  /\ flag_state = "YELLOW"
  /\ events # << >>
  /\ events[Len(events)].kind = "YEL"
  /\ \E n \in DOMAIN drivers : drivers[n].status = "DNF" /\ events[Len(events)].who = n

\* The race timer is the lowest total among the Running competitors while
\* nobody has Finished, and the lowest total among the Finished ones after.
TimerFollowsLeader ==
  /\ TimesOf("FINISHED") = {} /\ TimesOf("RUNNING") # {} =>
       race_timer_s(Self) = MinOf(TimesOf("RUNNING"))
  /\ TimesOf("FINISHED") # {} => race_timer_s(Self) = MinOf(TimesOf("FINISHED"))

\* C9: the race timer is the leader's total among the Running competitors
\* until somebody has Finished, then the lowest total among the Finished
\* ones, and from then on no call changes it.
C9_RaceTimerFreezesAtFinish ==
  /\ []TimerFollowsLeader
  /\ [][ TimesOf("FINISHED") # {} => race_timer_s(Self)' = race_timer_s(Self) ]_vars

\* Two competitors Finished with different totals and step_lap was called
\* again.
C9_Witness ==
  /\ last_call = "noop"
  /\ finished
  /\ Cardinality(TimesOf("FINISHED")) >= 2
  /\ race_timer_s(Self) = MinOf(TimesOf("FINISHED"))

\* C10: the wear of a tire stays between 0 and 100; without a pit stop it
\* only goes down and the compound stays; a pit stop fits a new tire at 100
\* that the same lap then wears; and once the session is prepared the set of
\* compounds a competitor has used only grows.
C10_WearAndCompounds ==
  [][ \A n \in DOMAIN drivers :
        LET a == drivers[n]
            b == drivers'[n]
        IN  /\ b.tires.wear_percent >= 0 /\ b.tires.wear_percent <= 1000000
            /\ a.tires.tire_type # "NONE" =>
                 IF b.pit_stops = a.pit_stops
                 THEN /\ b.tires.tire_type = a.tires.tire_type
                      /\ b.tires.wear_percent <= a.tires.wear_percent
                 ELSE /\ b.pit_stops = a.pit_stops + 1
                      /\ b.tires.wear_percent
                           = 1000000 - _wear_per_lap(b.skill, b.tires.tire_type)
            /\ _prepared => a.used_compounds \subseteq b.used_compounds
            /\ b.tires.tire_type # "NONE" => b.tires.tire_type \in b.used_compounds ]_vars

\* A competitor pitted for a second compound and has worn the new tire.
C10_Witness ==
  \E n \in DOMAIN drivers :
    /\ drivers[n].pit_stops = 1
    /\ Cardinality(drivers[n].used_compounds) = 2
    /\ drivers[n].tires.wear_percent < 1000000
    /\ drivers[n].lap >= 2

\* C11: once the session is prepared, a further prepare() or start() call
\* leaves every competitor's tire (compound and wear) and used-compound set
\* and every planned pit lap as they are, also after laps.
C11_PrepareIsIdempotent ==
  [][ _prepared /\ PrepareOrStartCall =>
        /\ \A n \in DOMAIN drivers :
             /\ drivers'[n].tires = drivers[n].tires
             /\ drivers'[n].used_compounds = drivers[n].used_compounds
        /\ _planned_pit_lap' = _planned_pit_lap ]_vars

\* prepare() was called after two laps, when a competitor had pitted for a
\* new tire and worn it.
C11_Witness ==
  /\ last_call = "prepare"
  /\ _lap_index >= 2
  /\ \E n \in DOMAIN drivers :
       /\ drivers[n].pit_stops = 1
       /\ drivers[n].tires.wear_percent < 1000000
       /\ n \in DOMAIN _planned_pit_lap

\* The new events that are overtakes of the competitor named n.
OvertakesLogged(n) ==
  { i \in NewEventIndexes : events'[i].kind = "OVT" /\ events'[i].who = n }

\* The positions the competitor named n gained from the order before to the
\* order after (0: it is not in both).
PositionsGained(before, after, n) ==
  IF IndexOf(before, n) > 0 /\ IndexOf(after, n) > 0
  THEN IndexOf(before, n) - IndexOf(after, n)
  ELSE 0

\* C12: a lap not run under yellow logs, for every competitor that is in the
\* running order before and after it and moved up k >= 1 places, exactly one
\* OVT event, which credits k, and logs no OVT event for anyone else.
C12_OvertakesLogged ==
  [][ last_call' = "lap" =>
        \A before \in {RunningOrder}, after \in {RunningOrder'}, n \in DOMAIN drivers :
          \A k \in {PositionsGained(before, after, n)} :
            IF k >= 1
            THEN /\ Cardinality(OvertakesLogged(n)) = 1
                 /\ \A i \in OvertakesLogged(n) : events'[i].n = k
            ELSE OvertakesLogged(n) = {} ]_vars

\* A lap under green after which the log holds an overtake of two places
\* and the one overtaken twice has none.
C12_Witness ==
  /\ last_call = "lap"
  /\ Len(RunningOrder) >= 3
  /\ events # << >>
  /\ events[Len(events)].kind = "OVT"
  /\ events[Len(events)].n = 2
  /\ events[Len(events)].who = RunningOrder[1]

\* After ScenarioLaps laps the race is finished and every competitor is
\* Finished with ScenarioLaps laps and one pit stop; before, it is not.
QuietRaceResult ==
  /\ _lap_index <= ScenarioLaps
  /\ _lap_index < ScenarioLaps =>
       ~ finished /\ \A n \in DOMAIN drivers : drivers[n].status = "RUNNING"
  /\ _lap_index = ScenarioLaps =>
       /\ finished
       /\ \A n \in DOMAIN drivers :
            /\ drivers[n].status = "FINISHED"
            /\ drivers[n].lap = ScenarioLaps
            /\ drivers[n].pit_stops = 1

\* C13: in the dry race of 5 laps with 3 competitors and nothing left to
\* chance, every step_lap call after start() runs one lap until the race is
\* finished, and after 5 of them every competitor is Finished with lap 5 and
\* exactly one pit stop and the race reports finished.
C13_QuietRaceEndsAfterFiveLaps ==
  /\ []QuietRaceResult
  /\ [][ StepLapCall /\ start_monotonic # NoneTime /\ ~ finished =>
           _lap_index' = _lap_index + 1 ]_vars

\* The race of 5 laps is over, and two competitors pitted in different laps.
C13_Witness ==
  /\ finished
  /\ _lap_index = 5
  /\ Cardinality(DOMAIN drivers) = 3
  /\ \A n \in DOMAIN drivers : drivers[n].pit_stops = 1 /\ drivers[n].lap = 5
  /\ \E a, b \in DOMAIN drivers : _planned_pit_lap[a] # _planned_pit_lap[b]


\* The entries of the log from position c on, a negative c counted as 0.
FromPosition(c) ==
  LET from == Max(c, 0)
  IN  [ i \in 1..(Len(events) - from) |-> events[from + i] ]

\* What pop_new_events returns for the cursors from -2 to past the end.
PopNewEventsReturns ==
  \A c \in (-2)..(Len(events) + 1) :
    /\ pop_new_events(Self, c).cursor = Len(events)
    /\ pop_new_events(Self, c).new = FromPosition(c)

\* What the consumer has received is the log up to its cursor.
ConsumerHasEveryEventOnce ==
  /\ log_index <= Len(events)
  /\ received = [ i \in 1..log_index |-> events[i] ]

\* C14: the event log is append-only under every operation; pop_new_events(c)
\* returns the entries from position c (a negative c counts as 0) to the end
\* and the length of the log as the new cursor, and leaves the log as it is;
\* a consumer that polls with the cursor returned last has received every
\* logged event up to its cursor exactly once, in the order of the log.
C14_EventLogAppendOnly ==
  /\ [](PopNewEventsReturns /\ ConsumerHasEveryEventOnce)
  /\ [][ /\ Len(events') >= Len(events)
         /\ \A i \in 1..Len(events) : events'[i] = events[i]
         /\ last_call' = "pop_new_events" =>
              /\ events' = events
              /\ log_index' = Len(events)
              /\ new_events' = FromPosition(log_index) ]_vars

\* The consumer has polled more than once and the last poll handed it new
\* events, after which it has the whole log.
C14_Witness ==
  /\ last_call = "pop_new_events"
  /\ Len(new_events) >= 2
  /\ log_index > Len(new_events)
  /\ received = events
  /\ \E i \in 1..Len(events) : events[i].kind = "RF"

\* The two fields pause_clock and resume_clock write.
PauseFields == << _paused_total_s, _pause_started_monotonic >>

\* The accumulated paused time, with the pause that is running.
AccumulatedPause ==
  IF clock_paused THEN _paused_total_s + (clock - _pause_started_monotonic)
  ELSE _paused_total_s

\* C15: pause_clock while the clock is paused and resume_clock while it is
\* not paused change nothing, and the accumulated paused time, with the pause
\* that is running, is the time that passed while the clock was paused: each
\* paused interval is counted once.
C15_PauseResumeNoDoubleCounting ==
  /\ [](AccumulatedPause = paused_time)
  /\ [][ /\ (last_call' = "pause_clock" /\ clock_paused) => PauseFields' = PauseFields
         /\ (last_call' = "resume_clock" /\ ~clock_paused) => PauseFields' = PauseFields
       ]_vars

\* A first paused interval has been added, and pause_clock was just called
\* while a second pause has been running for two ticks.
C15_Witness ==
  /\ last_call = "pause_clock"
  /\ _pause_started_monotonic # NoneTime
  /\ clock - _pause_started_monotonic = 2
  /\ _paused_total_s = 1

\* C16: race_clock_elapsed_s() is 0 before start and afterwards the time
\* elapsed since start minus the time spent paused since start; it is never
\* negative and never larger than real_elapsed_s().
C16_RaceClockExcludesPauses ==
  /\ race_clock_elapsed_s(Self, clock) >= 0
  /\ race_clock_elapsed_s(Self, clock) <= real_elapsed_s(Self, clock)
  /\ IF start_monotonic = NoneTime
     THEN race_clock_elapsed_s(Self, clock) = 0
     ELSE race_clock_elapsed_s(Self, clock) =
            (clock - start_monotonic) - paused_time_since_start

\* The dry compounds the competitor of the call has used.
DryCompoundsUsed == arguments[1].used_compounds \cap {"SOFT", "MEDIUM", "HARD"}

\* C17: pick_next_compound returns the wet compound when it is raining;
\* otherwise, for a competitor who has used fewer than two distinct dry
\* compounds, the first of soft, medium, hard not yet used; otherwise hard
\* when the wear of the tires is below 10 % and medium in every other case.
C17_PickNextCompound ==
  result # << >> =>
    result[1] =
      IF arguments[2] THEN "WET"
      ELSE IF Cardinality(DryCompoundsUsed) < 2
           THEN IF "SOFT" \notin DryCompoundsUsed THEN "SOFT"
                ELSE IF "MEDIUM" \notin DryCompoundsUsed THEN "MEDIUM"
                ELSE "HARD"
           ELSE IF arguments[1].tires.wear_percent < 100000 THEN "HARD"
           ELSE "MEDIUM"

\* In the dry, a competitor on soft tires below 10 % who has used soft only
\* is given medium.
C17_Witness ==
  /\ result = << "MEDIUM" >>
  /\ ~arguments[2]
  /\ arguments[1].used_compounds = {"SOFT"}
  /\ arguments[1].tires.wear_percent < 100000

\* order lists every member of S exactly once.
ListsOnce(order, S) ==
  /\ Len(order) = Cardinality(S)
  /\ { order[i] : i \in 1..Len(order) } = S

\* order is the classification of field.
Classified(field, order) ==
  /\ ListsOnce(order, DOMAIN field)
  /\ \A i, j \in 1..Len(order) : i < j =>
       LET a == field[order[i]]
           b == field[order[j]]
       IN  /\ a.status = "DNF" => b.status = "DNF"
           /\ b.status # "DNF" => a.total_time_s <= b.total_time_s
           /\ a.status = "DNF" =>
                \/ a.lap > b.lap
                \/ a.lap = b.lap /\ a.total_time_s >= b.total_time_s

\* order is the running order of field.
RunningByTime(field, order) ==
  /\ ListsOnce(order, { n \in DOMAIN field : field[n].status = "RUNNING" })
  /\ \A i, j \in 1..Len(order) : i < j =>
       \/ field[order[i]].total_time_s < field[order[j]].total_time_s
       \/ /\ field[order[i]].total_time_s = field[order[j]].total_time_s
          /\ order[i] < order[j]

\* C18: sorted_finished_and_running() lists every competitor exactly once,
\* first the Running and Finished ones in ascending total time, then the
\* Retired ones by completed laps descending and, among equal laps, by total
\* time descending; sorted_running() lists exactly the Running competitors in
\* ascending total time, equal times in input order.
C18_Standings ==
  result # << >> =>
    /\ Classified(arguments[1], result[1])
    /\ RunningByTime(arguments[1], result[2])

\* Two competitors retired, the one who completed more laps is listed above
\* the other although its total time is the lower one; the third is Running.
C18_Witness ==
  /\ result # << >>
  /\ result[2] = << 3 >>
  /\ result[1] = << 3, 2, 1 >>
  /\ arguments[1][2].lap > arguments[1][1].lap
  /\ arguments[1][2].total_time_s < arguments[1][1].total_time_s
  /\ arguments[1][3].total_time_s > arguments[1][1].total_time_s

\* C19: driven by run_race_ui, every red-flag stoppage is eventually ended
\* and the loop is eventually left with the race finished.
C19_LoopEndsStoppagesAndTerminates ==
  /\ _red_flag_active ~> ~_red_flag_active
  /\ <>(pc = "done" /\ finished)

\* C20: outside a red-flag stoppage, between any two operations the flag
\* reads Yellow exactly when is_yellow_active() is true: with the remaining
\* yellow lap count at zero the flag does not read Yellow, and with the count
\* positive it does.
C20_FlagYellowIffYellowActive ==
  ~ _red_flag_active => (flag_state = "YELLOW" <=> is_yellow_active(Self))

\* The change of the flag in a step, as the pair of its values.
FlagChange == << flag_state, flag_state' >>

\* C21 as stated: the flag changes only from Green to Red, from Red to Green,
\* from Green to Yellow and from Yellow to Green.
C21_FlagChangesAsListed ==
  [][ flag_state' # flag_state =>
        FlagChange \in { << "GREEN", "RED" >>, << "RED", "GREEN" >>,
                         << "GREEN", "YELLOW" >>, << "YELLOW", "GREEN" >> } ]_vars

\* C21: the flag is always Green, Yellow or Red and changes only from Green to
\* Red, from Yellow to Red, from Red to Green, from Green to Yellow and from
\* Yellow to Green; it becomes Red only in a step_lap call that triggers a red
\* flag, whatever it read before, and stops being Red only in a
\* clear_red_flag call.
C21_FlagChangesWithRedFromYellow ==
  /\ [](flag_state \in {"GREEN", "YELLOW", "RED"})
  /\ [][ flag_state' # flag_state =>
          /\ FlagChange \in { << "GREEN", "RED" >>, << "YELLOW", "RED" >>,
                              << "RED", "GREEN" >>, << "GREEN", "YELLOW" >>,
                              << "YELLOW", "GREEN" >> }
          /\ flag_state' = "RED" => last_call' = "red_flag"
          /\ flag_state = "RED" => ClearRedFlagCall ]_vars

\* A red flag was triggered while yellow laps remained, the flag reading
\* Yellow before the call.
C21_Witness ==
  /\ last_call = "red_flag"
  /\ flag_state = "RED"
  /\ _yellow_laps_remaining > 0
  /\ \E i \in 1..Len(events) : events[i].kind = "YEL"

\* The step logs a pit stop of competitor n.
PitLogged(n) ==
  \E i \in (Len(events) + 1)..Len(events') :
    events'[i].kind = "PIT" /\ events'[i].who = n

\* Competitor n runs the lap of the step: it is Running before it and does not retire in it.
RunsTheLap(n) == drivers[n].status = "RUNNING" /\ drivers'[n].status # "DNF"

\* Before the step, a compound change is due for competitor n.
CompoundChangeForced(n) ==
  /\ ~ raining
  /\ n \in DOMAIN _planned_pit_lap
  /\ drivers[n].pit_stops = 0
  /\ drivers[n].lap >= _planned_pit_lap[n]
  /\ Cardinality(drivers[n].used_compounds \cap {"SOFT", "MEDIUM", "HARD"}) < 2

\* Before the step, a pit stop under yellow is cheap for competitor n.
CheapPit(n) ==
  /\ drivers[n].tires.tire_type # "WET"
  /\ drivers[n].tires.wear_percent < 350000
  /\ pit_wont_lose_position(Self, n, avg_pit_stop_s + 1000)

\* C22: with the flag-aware strategy in a dry race, in every lap run under an active yellow flag a
\* competitor on a non-wet tire worn below 35 % pits whenever it is last in the running order or
\* leads the competitor behind by more than the pit loss + 0.5 s; and in a lap with no yellow flag
\* active it pits only if its wear is below 20 % or a compound change is forced.
C22_CheapPitInEveryYellowLap ==
  [][ pit_strategy = "Neutralization" /\ ~ raining =>
        /\ last_call' = "yellow_lap" =>
             \A n \in DOMAIN drivers : RunsTheLap(n) /\ CheapPit(n) => PitLogged(n)
        /\ last_call' = "lap" =>
             \A n \in DOMAIN drivers :
               PitLogged(n) => drivers[n].tires.wear_percent < 200000 \/ CompoundChangeForced(n)
    ]_vars

\* The laps that red flags must keep between them.
Cooldown == config.red_flag_cooldown_laps

\* C23: between two consecutive red-flag triggers the lap counter advances by at least
\* red_flag_cooldown_laps, for every cooldown >= 0 and every sequence of step_lap and
\* clear_red_flag calls: _last_red_flag_lap changes only when a red flag is triggered, to the lap
\* counter of that moment, the lap counter never decreases, and a red flag is triggered only if no
\* red flag was triggered before or the lap counter is at least Cooldown past _last_red_flag_lap.
C23_RedFlagsKeepTheCooldown ==
  /\ [](_last_red_flag_lap = -10000 <=> RedFlags = 0)
  /\ [][ /\ _lap_index' >= _lap_index
         /\ _last_red_flag_lap' # _last_red_flag_lap => last_call' = "red_flag"
         /\ Len(events') > Len(events) /\ events'[Len(events')].kind = "RF" => last_call' = "red_flag"
         /\ last_call' = "red_flag" =>
              /\ RedFlags' = RedFlags + 1
              /\ _last_red_flag_lap' = _lap_index
              /\ _lap_index' = _lap_index
              /\ RedFlags > 0 => _lap_index - _last_red_flag_lap >= Cooldown ]_vars

\* A second red flag exactly Cooldown >= 1 laps after a first one that was triggered before any lap.
C23_Witness ==
  /\ last_call = "red_flag"
  /\ RedFlags = 2
  /\ Cooldown >= 1
  /\ _lap_index = Cooldown
  /\ events[1].kind = "RF"

\* The remaining yellow laps when step_lap arms the yellow flag: the count of before the call,
\* less the lap that the call runs under yellow.
BeforeArming == IF _yellow_laps_remaining > 0 THEN _yellow_laps_remaining - 1 ELSE 0

\* The step logs a yellow-flag event.
YelLogged == \E i \in NewEventIndexes : events'[i].kind = "YEL"

\* C24: arming the yellow flag never shortens it: after a lap with a retirement that did not end
\* the race the remaining yellow lap count is the maximum of its value before arming and a
\* duration in yellow_flag_min_laps..max(yellow_flag_min_laps, yellow_flag_max_laps), a YEL event
\* is logged only if the count increased (and then it is), and in every reachable state the count
\* lies between 0 and max(yellow_flag_min_laps, yellow_flag_max_laps).
C24_ArmingNeverShortensYellow ==
  /\ [](_yellow_laps_remaining \in
          0..Max(config.yellow_flag_min_laps, config.yellow_flag_max_laps))
  /\ [][ /\ YelLogged => last_call' \in {"lap", "yellow_lap"}
         /\ last_call' \in {"lap", "yellow_lap"} =>
              /\ _yellow_laps_remaining' >= BeforeArming
              /\ YelLogged <=> _yellow_laps_remaining' > BeforeArming
              /\ RetiredNow # {} /\ ~ finished' =>
                   \E new_duration \in YellowDurations(Self) :
                     _yellow_laps_remaining' = Max(BeforeArming, new_duration)
              /\ RetiredNow = {} \/ finished' => _yellow_laps_remaining' = BeforeArming ]_vars

\* A lap run under yellow retired a second competitor and the arming left the count as it was:
\* the last retirement is logged after the last yellow-flag event.
C24_Witness ==
  /\ last_call = "yellow_lap"
  /\ ~ finished
  /\ _yellow_laps_remaining = 2
  /\ \E i \in 1..Len(events) :
       /\ events[i].kind = "DNF"
       /\ \E j \in 1..(i - 1) : events[j].kind = "YEL"
       /\ \A j \in (i + 1)..Len(events) : events[j].kind # "YEL"

\* C25: after any sequence of operations every competitor's effects agree with the flag: under
\* Yellow the pace multiplier is yellow_pace_multiplier and overtaking is disallowed, under Green
\* or Red the multiplier is 1 and overtaking is allowed.
C25_EffectsAgreeWithFlag ==
  /\ DOMAIN _driver_effects = DOMAIN drivers
  /\ \A n \in DOMAIN drivers :
       _driver_effects[n] =
         IF flag_state = "YELLOW"
         THEN [ pace_multiplier |-> config.yellow_pace_multiplier, overtake_allowed |-> FALSE ]
         ELSE [ pace_multiplier |-> 100, overtake_allowed |-> TRUE ]

\* A red flag interrupted a yellow period: the flag went from Green to Yellow to Red.
C25_Witness ==
  /\ flag_state = "RED"
  /\ is_yellow_active(Self)
  /\ Len(events) >= 2
  /\ events[Len(events)].kind = "RF"
  /\ events[Len(events) - 1].kind = "YEL"
  /\ \A n \in DOMAIN drivers : _driver_effects[n].overtake_allowed

\* The step logs a rule-limit event.
FiaLogged == \E i \in NewEventIndexes : events'[i].kind = "FIA"

\* The smallest total time among the Running competitors is at or above the ceiling.
LeaderOverCeiling ==
  /\ TimesOf("RUNNING") # {}
  /\ MinOf(TimesOf("RUNNING")) >= config.race_sim_max_seconds

\* C26: a step_lap call on a started, unfinished race with no red flag active in which the
\* smallest total among the Running competitors is at or above race_sim_max_seconds marks the
\* race finished, logs exactly one event, the rule-limit (FIA) event, and changes no competitor,
\* lap counter or flag; no other call logs a rule-limit event.
C26_TimeCeilingEndsTheRace ==
  [][ /\ StepLapCall /\ start_monotonic # NoneTime /\ ~ finished /\ ~ _red_flag_active
           /\ LeaderOverCeiling =>
             /\ last_call' = "fia"
             /\ finished'
             /\ Len(events') = Len(events) + 1
             /\ SubSeq(events', 1, Len(events)) = events
             /\ events'[Len(events')].kind = "FIA"
             /\ drivers' = drivers
             /\ _lap_index' = _lap_index
             /\ flag_state' = flag_state
      /\ FiaLogged =>
             /\ StepLapCall /\ start_monotonic # NoneTime /\ ~ finished /\ ~ _red_flag_active
             /\ LeaderOverCeiling ]_vars

\* The ceiling ended a race in which the competitors were Running with different totals.
C26_Witness ==
  /\ last_call = "fia"
  /\ finished
  /\ events[Len(events)].kind = "FIA"
  /\ \A n \in DOMAIN drivers : drivers[n].status = "RUNNING"
  /\ Cardinality(TimesOf("RUNNING")) > 1

\* C27: between operations the flag reads Red exactly when the red-flag suspension is active and
\* the restart memento is present exactly then; the memento is set only by a step_lap call that
\* triggers a red flag and discarded only by clear_red_flag, and clear_red_flag with no red flag
\* active changes nothing.
C27_RedFlagSuspensionAndMemento ==
  /\ []( /\ flag_state = "RED" <=> _red_flag_active
         /\ _restart_memento.present <=> _red_flag_active
         /\ ~ _red_flag_active => clear_red_flag(Self) = Self )
  /\ [][ /\ ~ _restart_memento.present /\ _restart_memento'.present =>
              /\ last_call' = "red_flag"
              /\ _restart_memento' = RestartMemento(sorted_running(Self))
         /\ _restart_memento.present /\ _restart_memento' # _restart_memento =>
              ClearRedFlagCall /\ _restart_memento' = NoMemento
         /\ last_call' = "red_flag" => _red_flag_active' /\ ~ _red_flag_active
         /\ ClearRedFlagCall => _red_flag_active /\ ~ _red_flag_active' ]_vars

\* clear_red_flag ended the second stoppage of a race: the memento is discarded, the flag Green.
C27_Witness ==
  /\ last_call = "clear_red_flag"
  /\ RedFlags = 2
  /\ ~ _red_flag_active
  /\ ~ _restart_memento.present
  /\ flag_state = "GREEN"

\* C28: in a dry race with track_laps >= 2, run with either built-in pit strategy, every competitor
\* that reaches Finished status has made at least one pit stop and has used at least two distinct
\* dry compounds.
C28_FinishersChangedCompound ==
  ~ raining /\ track_laps >= 2 =>
    \A n \in DOMAIN drivers :
      drivers[n].status = "FINISHED" =>
        /\ drivers[n].pit_stops >= 1
        /\ Cardinality(drivers[n].used_compounds \cap {"SOFT", "MEDIUM", "HARD"}) >= 2

\* A race of two laps ended with a competitor Finished, under the flag-aware strategy.
C28_Witness ==
  /\ ~ raining
  /\ track_laps = 2
  /\ pit_strategy = "Neutralization"
  /\ finished
  /\ \E n \in DOMAIN drivers : drivers[n].status = "FINISHED" /\ drivers[n].pit_stops = 1

\* The competitors of one status.
WithStatus(status) == { n \in DOMAIN drivers : drivers[n].status = status }

\* C29: for competitors that all start at lap 0 and track_laps >= 1, in every state after start()
\* every Running competitor's completed-lap count equals the lap counter and is below track_laps,
\* every Finished competitor's lap count equals track_laps, and the lap counter never exceeds
\* track_laps; hence all competitors that finish do so in the same step_lap call.
C29_LapCountersAgree ==
  /\ []( start_monotonic # NoneTime /\ track_laps >= 1 =>
           /\ \A n \in WithStatus("RUNNING") :
                drivers[n].lap = _lap_index /\ drivers[n].lap < track_laps
           /\ \A n \in WithStatus("FINISHED") : drivers[n].lap = track_laps
           /\ _lap_index <= track_laps )
  /\ [][ WithStatus("FINISHED")' # WithStatus("FINISHED") =>
           /\ last_call' \in {"lap", "yellow_lap"}
           /\ WithStatus("FINISHED") = {}
           /\ WithStatus("FINISHED")' \subseteq WithStatus("RUNNING")
           /\ WithStatus("RUNNING")' = {} ]_vars

\* Two competitors Finished a race of more than one lap that a red flag had stopped.
C29_Witness ==
  /\ finished
  /\ track_laps > 1
  /\ _lap_index = track_laps
  /\ Cardinality(WithStatus("FINISHED")) = 2
  /\ RedFlags > 0

\* C30: with red_flag_cooldown_laps >= 1 and a caller that calls clear_red_flag after every red
\* flag, repeated step_lap calls eventually mark the race finished: the calls that advance a lap
\* advance the counter one by one up to track_laps at most, and a call triggers a red flag only
\* if none was triggered since the last call that advanced a lap.
C30_RestartedRaceFinishes ==
  /\ [](_lap_index \in 0..track_laps)
  /\ [][ /\ last_call' \in {"lap", "yellow_lap"} <=> _lap_index' = _lap_index + 1
         /\ _lap_index' # _lap_index => last_call' \in {"lap", "yellow_lap"}
         /\ _last_red_flag_lap' # _last_red_flag_lap => last_call' = "red_flag"
         /\ last_call' = "red_flag" =>
              _last_red_flag_lap < _lap_index /\ _last_red_flag_lap' = _lap_index ]_vars
  /\ <>finished

\* The race finished after two stoppages that the caller ended.
C30_Witness ==
  /\ finished
  /\ RedFlags = 2
  /\ ~ _red_flag_active
  /\ _lap_index = track_laps

\* The positions in the log of the terminal events, session-end and rule-limit.
TerminalEvents == { i \in 1..Len(events) : events[i].kind \in {"END", "FIA"} }

\* C31: the race is marked finished by exactly one step_lap call, which logs exactly one terminal
\* event, as the last event of the log: a session-end (END) event, only with no competitor
\* Running, or a rule-limit (FIA) event; no event is appended after it and the finished mark is
\* never reset.
C31_OneTerminalEventEndsTheLog ==
  /\ []( /\ finished <=> TerminalEvents # {}
         /\ finished => TerminalEvents = {Len(events)}
         /\ finished /\ events[Len(events)].kind = "END" => WithStatus("RUNNING") = {} )
  /\ [][ /\ finished => finished' /\ events' = events
         /\ finished' # finished =>
              /\ last_call' \in {"lap", "yellow_lap", "fia"}
              /\ SubSeq(events', 1, Len(events)) = events
              /\ last_call' = "fia" <=> events'[Len(events')].kind = "FIA" ]_vars

\* step_lap was called again after the race ended with one competitor Finished and one retired.
C31_Witness ==
  /\ last_call = "noop"
  /\ finished
  /\ events[Len(events)].kind = "END"
  /\ WithStatus("FINISHED") # {}
  /\ WithStatus("DNF") # {}

=============================================================================
